---- MODULE Spec2Model ----
(***************************************************************************)
(* Backtest simulation engine of swing_trading: Backtester.run walking an  *)
(* ordered bar sequence, the PortfolioManager that sizes positions and     *)
(* keeps the balance, and the trade log.                                   *)
(*                                                                         *)
(* Python floats are modelled as exact rationals [n, d] (d > 0, lowest     *)
(* terms), so equalities below are equalities of real numbers.  Prices are *)
(* integers.  Optional values (None or a value) are sequences of length 0  *)
(* or 1.  StrategyEngine.generate_signal is an input of the driver: each   *)
(* bar draws its result from SignalDetails, or, when the frame of bars is  *)
(* part of the state, from the crossover rule on the rows so far.  The     *)
(* PortfolioManager is the class that has update_balance_after_trade, the  *)
(* method Backtester.run calls (execution_handler.py).  The run length is  *)
(* bounded so that the rationals stay within TLC's integers.               *)
(*                                                                         *)
(* Spec is Backtester.run on freely drawn bars, SpecSizer one call of the  *)
(* sizer, SpecSignal one call of the crossover rule, SpecScenario          *)
(* Backtester.run on a given close sequence, and SpecTrader the live loop  *)
(* Trader.run of strategy_engine.py.                                       *)
(***************************************************************************)
EXTENDS Integers, Sequences, FiniteSets, TLC

VARIABLES
    pc,                \* position of Backtester.run / of the sizer harness
    config,            \* ConfigurationManager: capital_base, risk_per_trade_percent
    portfolio_manager, \* PortfolioManager: balance, initial_balance, last_position_size, realized_pnl
    trades,            \* Backtester.trades
    n,                 \* number of rows of data_with_indicators
    i,                 \* number of rows the loop has consumed
    row,               \* the row of the current (last consumed) iteration
    signal_details,    \* last result of strategy_engine.generate_signal
    in_position,       \* locals of Backtester.run
    entry_price,
    stop_loss_price,
    position_size,
    entry_time,
    branch,            \* the branch of the loop body the last iteration took
    ledger_updates,    \* number of calls of update_balance_after_trade
    entries,           \* number of times in_position was set to True
    signal_calls,      \* number of calls of generate_signal
    report,            \* what _generate_report printed
    metrics,           \* the values _generate_report computed, None if it computed none
    data,              \* data_with_indicators when the frame is given up front, else << >>
    sentiment,         \* the sentiment label passed to generate_signal
    trader,            \* Trader (strategy_engine.py) and what its run loop did
    shelf              \* a second Backtester whose run is suspended, None if there is none

vars == <<pc, config, portfolio_manager, trades, n, i, row, signal_details,
          in_position, entry_price, stop_loss_price, position_size, entry_time,
          branch, ledger_updates, entries, signal_calls, report, metrics,
          data, sentiment, trader, shelf>>

\* the state outside Backtester.run and its PortfolioManager
others == <<data, sentiment, trader, shelf>>

----------------------------------------------------------------------------
\* Bounds and program constants

MaxBars == 4

CapitalBase == 100

RiskPerTradePercent == 2

ShortWindow == 10

LongWindow == 30

Prices == {40, 95, 100, 103}

StopLossPrices == {-5, 0, 95, 99, 100}

----------------------------------------------------------------------------
\* Optional values

None == <<>>

Some(x) == <<x>>

\* Python truthiness of an optional number: None and 0 are falsy
Truthy(o) == o # None /\ o[1] # 0

----------------------------------------------------------------------------
\* Exact rational arithmetic standing for float arithmetic

Abs(x) == IF x < 0 THEN -x ELSE x

RECURSIVE GCD(_, _)
GCD(a, b) == IF b = 0 THEN a ELSE GCD(b, a % b)

Norm(num, den) ==
    LET g == GCD(Abs(num), den)
    IN  [n |-> num \div g, d |-> den \div g]

R(x) == [n |-> x, d |-> 1]

Zero == R(0)

\* In RAdd, RMul and RDiv the arguments are first bound to their values (a
\* in {a0}), so that each argument is evaluated once.
RAdd(a0, b0) ==
    CHOOSE r \in {LET g == GCD(a.d, b.d)
                  IN  Norm(a.n * (b.d \div g) + b.n * (a.d \div g), (a.d \div g) * b.d) :
                      a \in {a0}, b \in {b0}} : TRUE

RMul(a0, b0) ==
    CHOOSE r \in {LET x == Norm(a.n, b.d)
                      y == Norm(b.n, a.d)
                  IN  [n |-> x.n * y.n, d |-> x.d * y.d] :
                      a \in {a0}, b \in {b0}} : TRUE

\* a / b for b # 0
RDiv(a0, b0) ==
    CHOOSE r \in {IF b.n > 0 THEN RMul(a, [n |-> b.d, d |-> b.n])
                             ELSE RMul(a, [n |-> -b.d, d |-> -b.n]) :
                      a \in {a0}, b \in {b0}} : TRUE

RLt(a, b) == a.n * b.d < b.n * a.d

\* Comparisons of two floats that may be NaN (None): false when either is NaN
FGt(x, y) == x # None /\ y # None /\ RLt(y[1], x[1])
FLt(x, y) == x # None /\ y # None /\ RLt(x[1], y[1])
FLe(x, y) == x # None /\ y # None /\ ~RLt(y[1], x[1])
FGe(x, y) == x # None /\ y # None /\ ~RLt(x[1], y[1])

\* the test for a positive size letting a size of 0 through
RPos_OrZero(a) == a.n >= 0

RPos(a) == a.n > 0

----------------------------------------------------------------------------
\* PortfolioManager

PortfolioManagerInit(cfg) ==
    [balance            |-> R(cfg.capital_base),
     initial_balance    |-> R(cfg.capital_base),
     last_position_size |-> Zero,
     realized_pnl       |-> Zero]

\* the sizer with the risk amount taken as balance * percent, not divided by 100
CalculatePositionSize_NoPercent(pm, cfg, entry, stop) ==
    IF stop >= entry
    THEN [ret |-> Zero, pm |-> pm]
    ELSE LET size == RDiv(RMul(pm.balance, R(cfg.risk_per_trade_percent)), R(entry - stop))
         IN  [ret |-> size, pm |-> [pm EXCEPT !.last_position_size = size]]

\* the sizer setting the risk amount aside from the balance
CalculatePositionSize_ReservesRisk(pm, cfg, entry, stop) ==
    IF stop >= entry
    THEN [ret |-> Zero, pm |-> pm]
    ELSE LET risk == RMul(pm.balance, RDiv(R(cfg.risk_per_trade_percent), R(100)))
             size == RDiv(risk, R(entry - stop))
         IN  [ret |-> size,
              pm  |-> [pm EXCEPT !.last_position_size = size,
                                 !.balance = RAdd(pm.balance, RMul(R(-1), risk))]]

\* calculate_position_size: the returned size and the manager afterwards
CalculatePositionSize(pm, cfg, entry, stop) ==
    IF stop >= entry
    THEN [ret |-> Zero, pm |-> pm]
    ELSE LET risk_amount_dollars   == RMul(pm.balance, RDiv(R(cfg.risk_per_trade_percent), R(100)))
             risk_per_coin_dollars == entry - stop
         IN  IF risk_per_coin_dollars <= 0
             THEN [ret |-> Zero, pm |-> pm]
             ELSE LET size == RDiv(risk_amount_dollars, R(risk_per_coin_dollars))
                  IN  [ret |-> size,
                       pm  |-> [pm EXCEPT !.last_position_size = size]]

\* the pnl with entry and exit swapped
Pnl_Swapped(exit_price, entry, size) == RMul(R(entry - exit_price), size)

\* pnl of a closed trade, as computed by the ledger and by the trade record
Pnl(exit_price, entry, size) == RMul(R(exit_price - entry), size)

\* the ledger update that forgets realized_pnl
UpdateBalanceAfterTrade_NoRealized(pm, exit_price, entry, size) ==
    [pm EXCEPT !.balance = RAdd(pm.balance, Pnl(exit_price, entry, size))]

\* update_balance_after_trade: the manager afterwards
UpdateBalanceAfterTrade(pm, exit_price, entry, size) ==
    LET pnl == Pnl(exit_price, entry, size)
    IN  [pm EXCEPT !.balance      = RAdd(pm.balance, pnl),
                   !.realized_pnl = RAdd(pm.realized_pnl, pnl)]

----------------------------------------------------------------------------
\* Backtester.run

\* results generate_signal may return: the action and the optional stop-loss
SignalDetails ==
    [signal : {"buy"}, stop_loss : {None} \cup {Some(s) : s \in StopLossPrices}]
    \cup [signal : {"sell", "hold"}, stop_loss : {None}]

NoRow == [close |-> 0, timestamp |-> 0]

\* no Trader has been constructed
TraderIdle == [pc |-> "none"]

\* sm_atr_multiplier = 1.5
AtrMultiplier == [n |-> 3, d |-> 2]

\* ConfigurationManager.__init__: the fields the model reads
ConfigurationManager ==
    [capital_base           |-> CapitalBase,
     risk_per_trade_percent |-> RiskPerTradePercent,
     active_strategy        |-> "SENTIMENT_MOMENTUM",
     sm_short_window        |-> ShortWindow,
     sm_long_window         |-> LongWindow,
     sm_atr_multiplier      |-> AtrMultiplier,
     dry_run                |-> TRUE]

Init ==
    /\ pc = "start"
    /\ config = ConfigurationManager
    /\ portfolio_manager = PortfolioManagerInit(config)
    /\ trades = << >>
    /\ n = 0
    /\ i = 0
    /\ row = NoRow
    /\ signal_details = [signal |-> "hold", stop_loss |-> None]
    /\ in_position = FALSE
    /\ entry_price = 0
    /\ stop_loss_price = None
    /\ position_size = Zero
    /\ entry_time = None
    /\ branch = "none"
    /\ ledger_updates = 0
    /\ entries = 0
    /\ signal_calls = 0
    /\ report = "none"
    /\ metrics = None
    /\ shelf = None
    /\ data = << >>
    /\ sentiment = "neutral"
    /\ trader = TraderIdle

\* SentimentMomentumStrategy.generate_signal (config.py): the crossover rule
\* on the last two rows of the frame.  iloc[-1] or iloc[-2] of a frame with
\* fewer than two rows raises IndexError.

Sentiments == {"positive", "neutral", "negative"}

\* the rule with a strict comparison on the previous row of a buy
SentimentMomentumSignal_StrictPrevious(ohlcv_df, sent) ==
    IF Len(ohlcv_df) < 2 THEN "IndexError"
    ELSE LET latest   == ohlcv_df[Len(ohlcv_df)]
             previous == ohlcv_df[Len(ohlcv_df) - 1]
         IN  IF /\ FGt(latest.short_sma, latest.long_sma)
                /\ FLt(previous.short_sma, previous.long_sma)
             THEN IF sent # "negative" THEN "buy" ELSE "hold"
             ELSE IF /\ FLt(latest.short_sma, latest.long_sma)
                     /\ FGe(previous.short_sma, previous.long_sma)
                  THEN "sell"
                  ELSE "hold"

SentimentMomentumSignal(ohlcv_df, sent) ==
    IF Len(ohlcv_df) < 2 THEN "IndexError"
    ELSE LET latest   == ohlcv_df[Len(ohlcv_df)]
             previous == ohlcv_df[Len(ohlcv_df) - 1]
         IN  IF /\ FGt(latest.short_sma, latest.long_sma)
                /\ FLe(previous.short_sma, previous.long_sma)
             THEN IF sent # "negative" THEN "buy" ELSE "hold"
             ELSE IF /\ FLt(latest.short_sma, latest.long_sma)
                     /\ FGe(previous.short_sma, previous.long_sma)
                  THEN "sell"
                  ELSE "hold"

\* the sentiment the backtester passes to the strategy engine on every bar
MockSentiment == "neutral"

RECURSIVE SumClose(_, _, _)
SumClose(df, from, to) ==
    IF from > to THEN 0 ELSE df[from].close + SumClose(df, from + 1, to)

\* the rolling mean over a window that ends at a row k taking in the row after it
RollingMean_Lookahead(df, window, k) ==
    IF k < window THEN None
    ELSE IF k = Len(df)
         THEN Some(RDiv(R(SumClose(df, k - window + 1, k)), R(window)))
         ELSE Some(RDiv(R(SumClose(df, k - window + 2, k + 1)), R(window)))

\* df['close'].rolling(window).mean() at row k: NaN on the first window - 1
\* rows, then the mean of the window closes that end at row k
RollingMean(df, window, k) ==
    IF k < window THEN None
    ELSE Some(RDiv(R(SumClose(df, k - window + 1, k)), R(window)))

\* the frame of a close sequence before the indicators are added
Frame(closes) ==
    [k \in 1..Len(closes) |->
        [close |-> closes[k], timestamp |-> k, short_sma |-> None, long_sma |-> None]]

AddIndicators(df, cfg) ==
    [k \in 1..Len(df) |->
        [df[k] EXCEPT !.short_sma = RollingMean(df, cfg.sm_short_window, k),
                      !.long_sma = RollingMean(df, cfg.sm_long_window, k)]]

\* StrategyEngine.generate_signal on the rows up to the current one: a single
\* row has no crossover, otherwise the crossover rule
StrategyEngineSignal(window, sent) ==
    IF Len(window) < 2 THEN "hold" ELSE SentimentMomentumSignal(window, sent)

\* The inputs of a run.  With no frame in the state (data empty) the number
\* of rows, each close and each decision are drawn freely; with a frame they
\* are the frame's.
Lengths == IF data = << >> THEN 1..MaxBars ELSE {Len(data)}

Closes ==
    IF data = << >> THEN Prices
    ELSE IF i < Len(data) THEN {data[i + 1].close} ELSE {}

\* the stop-loss prices a buy decided on a frame may carry
FrameStops == {95, 99}

\* the stop-losses the strategy may attach to a buy decided on row r: the
\* row's own stop_loss column where the frame carries one
RowStops(r) ==
    IF "stop_loss" \in DOMAIN r THEN {r.stop_loss}
    ELSE {None} \cup {Some(sl) : sl \in FrameStops}

\* the generator is handed the whole frame instead of the rows up to the current one
Decisions_WholeFrame ==
    IF data = << >> \/ i >= Len(data) THEN SignalDetails
    ELSE {sd \in SignalDetails :
              /\ sd.signal = StrategyEngineSignal(data, MockSentiment)
              /\ sd.signal = "buy" => sd.stop_loss \in RowStops(data[i + 1])}

Decisions ==
    IF data = << >> \/ i >= Len(data) THEN SignalDetails
    ELSE {sd \in SignalDetails :
              /\ sd.signal = StrategyEngineSignal(SubSeq(data, 1, i + 1), MockSentiment)
              /\ sd.signal = "buy" => sd.stop_loss \in RowStops(data[i + 1])}

\* the empty frame falling through to the report
AbortEmpty_ReportsAnyway ==
    /\ UNCHANGED others
    /\ pc = "start"
    /\ data = << >>
    /\ pc' = "done"
    /\ report' = "no_trades"
    /\ metrics' = None
    /\ UNCHANGED <<config, portfolio_manager, trades, n, i, row, signal_details,
                   in_position, entry_price, stop_loss_price, position_size,
                   entry_time, branch, ledger_updates, entries, signal_calls>>

\* historical_data.empty: the run returns before the loop
AbortEmpty ==
    /\ UNCHANGED others
    /\ pc = "start"
    /\ data = << >>
    /\ pc' = "aborted"
    /\ UNCHANGED <<config, portfolio_manager, trades, n, i, row, signal_details,
                   in_position, entry_price, stop_loss_price, position_size,
                   entry_time, branch, ledger_updates, entries, signal_calls, report, metrics>>

\* a non-empty frame was fetched: the locals are set and the loop starts
StartLoop ==
    /\ pc = "start"
    /\ \E len \in Lengths : n' = len
    /\ data' = AddIndicators(data, config)
    /\ UNCHANGED <<sentiment, trader, shelf>>
    /\ pc' = "loop"
    /\ in_position' = FALSE
    /\ entry_price' = 0
    /\ stop_loss_price' = None
    /\ position_size' = Zero
    /\ entry_time' = None
    /\ UNCHANGED <<config, portfolio_manager, trades, i, row, signal_details,
                   branch, ledger_updates, entries, signal_calls, report, metrics>>

\* the loop takes the next row
NextRow(close) ==
    /\ pc = "loop"
    /\ i < n
    /\ i' = i + 1
    /\ row' = [close |-> close, timestamp |-> i + 1]
    /\ UNCHANGED <<pc, config, n, report, metrics>>
    /\ UNCHANGED others

\* the stop-loss test with a strict comparison
StopLossHit_Strict(inpos, close, slp) == inpos /\ close < slp[1]

\* line 56: the stop-loss test
StopLossHit(inpos, close, slp) == inpos /\ close <= slp[1]

\* the entry test without the check for an open position
BuyBranch_IgnorePosition(sig, inpos) == sig = "buy"

\* line 68: the entry test
BuyBranch(sig, inpos) == sig = "buy" /\ ~inpos

\* the exit test without the check for an open position
SellBranch_IgnorePosition(sig, inpos) == sig = "sell"

\* line 78: the exit test
SellBranch(sig, inpos) == sig = "sell" /\ inpos

\* the trade record appended on an exit
TradeRecord(etime, ts, exit_price, entry, size) ==
    [entry_date |-> etime, exit_date |-> ts, pnl |-> Pnl(exit_price, entry, size)]

\* the locals of an entry with entry_time left as it was
OpenLocals_KeepEntryTime(close, ts, sd) ==
    /\ entry_price' = close
    /\ entry_time' = entry_time
    /\ stop_loss_price' = sd.stop_loss

\* lines 69-71: the locals taken from the row and the decision
OpenLocals(close, ts, sd) ==
    /\ entry_price' = close
    /\ entry_time' = Some(ts)
    /\ stop_loss_price' = sd.stop_loss

\* generate_signal is called and returns sd
GenerateSignal(sd) ==
    /\ signal_details' = sd
    /\ signal_calls' = signal_calls + 1

\* the stop-loss exit that clears in_position without the ledger update
StopLossExit_NoLedger ==
    \E close \in Closes :
        /\ NextRow(close)
        /\ StopLossHit(in_position, close, stop_loss_price)
        /\ trades' = Append(trades,
               TradeRecord(entry_time, i + 1, close, entry_price, position_size))
        /\ in_position' = FALSE
        /\ branch' = "stop_loss"
        /\ UNCHANGED <<portfolio_manager, ledger_updates, signal_details, signal_calls,
                       entry_price, stop_loss_price, position_size, entry_time, entries>>

\* lines 56-61: stop-loss exit, then continue
StopLossExit ==
    \E close \in Closes :
        /\ NextRow(close)
        /\ StopLossHit(in_position, close, stop_loss_price)
        /\ portfolio_manager' =
               UpdateBalanceAfterTrade(portfolio_manager, close, entry_price, position_size)
        /\ ledger_updates' = ledger_updates + 1
        /\ trades' = Append(trades,
               TradeRecord(entry_time, i + 1, close, entry_price, position_size))
        /\ in_position' = FALSE
        /\ branch' = "stop_loss"
        /\ UNCHANGED <<signal_details, signal_calls, entry_price, stop_loss_price,
                       position_size, entry_time, entries>>

\* lines 68-72: buy while flat, the decision carries no usable stop-loss
BuyNoStopLoss ==
    \E close \in Closes, sd \in Decisions :
        /\ NextRow(close)
        /\ ~StopLossHit(in_position, close, stop_loss_price)
        /\ GenerateSignal(sd)
        /\ BuyBranch(sd.signal, in_position)
        /\ OpenLocals(close, i + 1, sd)
        /\ ~Truthy(sd.stop_loss)
        /\ branch' = "buy_no_stop"
        /\ UNCHANGED <<portfolio_manager, trades, in_position, position_size,
                       ledger_updates, entries>>

\* the buy branch that opens the position whatever size the sizer returned
BuySized_AnySize ==
    \E close \in Closes, sd \in Decisions :
        /\ NextRow(close)
        /\ ~StopLossHit(in_position, close, stop_loss_price)
        /\ GenerateSignal(sd)
        /\ BuyBranch(sd.signal, in_position)
        /\ OpenLocals(close, i + 1, sd)
        /\ Truthy(sd.stop_loss)
        /\ LET r == CalculatePositionSize(portfolio_manager, config, close, sd.stop_loss[1])
           IN  /\ position_size' = r.ret
               /\ portfolio_manager' = r.pm
               /\ in_position' = TRUE
               /\ entries' = entries + 1
               /\ branch' = "enter"
        /\ UNCHANGED <<trades, ledger_updates>>

\* lines 68-76: buy while flat with a stop-loss: the position is sized and,
\* when the size is positive, opened
BuySized ==
    \E close \in Closes, sd \in Decisions :
        /\ NextRow(close)
        /\ ~StopLossHit(in_position, close, stop_loss_price)
        /\ GenerateSignal(sd)
        /\ BuyBranch(sd.signal, in_position)
        /\ OpenLocals(close, i + 1, sd)
        /\ Truthy(sd.stop_loss)
        /\ LET r == CalculatePositionSize(portfolio_manager, config, close, sd.stop_loss[1])
           IN  /\ position_size' = r.ret
               /\ portfolio_manager' = r.pm
               /\ IF RPos(r.ret)
                  THEN /\ in_position' = TRUE
                       /\ entries' = entries + 1
                       /\ branch' = "enter"
                  ELSE /\ UNCHANGED <<in_position, entries>>
                       /\ branch' = "size_rejected"
        /\ UNCHANGED <<trades, ledger_updates>>

\* the sell exit that puts the new trade in front of the log
SellExit_Prepend ==
    \E close \in Closes, sd \in Decisions :
        /\ NextRow(close)
        /\ ~StopLossHit(in_position, close, stop_loss_price)
        /\ GenerateSignal(sd)
        /\ ~BuyBranch(sd.signal, in_position)
        /\ SellBranch(sd.signal, in_position)
        /\ portfolio_manager' =
               UpdateBalanceAfterTrade(portfolio_manager, close, entry_price, position_size)
        /\ ledger_updates' = ledger_updates + 1
        /\ trades' = <<TradeRecord(entry_time, i + 1, close, entry_price, position_size)>>
                         \o trades
        /\ in_position' = FALSE
        /\ branch' = "sell"
        /\ UNCHANGED <<entry_price, stop_loss_price, position_size, entry_time, entries>>

\* the sell branch that buys back on the bar it sold on
SellExit_ReentersOnBar ==
    \E close \in Closes, sd \in Decisions :
        /\ NextRow(close)
        /\ ~StopLossHit(in_position, close, stop_loss_price)
        /\ GenerateSignal(sd)
        /\ ~BuyBranch(sd.signal, in_position)
        /\ SellBranch(sd.signal, in_position)
        /\ portfolio_manager' =
               UpdateBalanceAfterTrade(portfolio_manager, close, entry_price, position_size)
        /\ ledger_updates' = ledger_updates + 1
        /\ trades' = Append(trades,
               TradeRecord(entry_time, i + 1, close, entry_price, position_size))
        /\ in_position' = TRUE
        /\ entry_time' = Some(i + 1)
        /\ branch' = "sell"
        /\ UNCHANGED <<entry_price, stop_loss_price, position_size, entries>>

\* lines 78-82: sell while long
SellExit ==
    \E close \in Closes, sd \in Decisions :
        /\ NextRow(close)
        /\ ~StopLossHit(in_position, close, stop_loss_price)
        /\ GenerateSignal(sd)
        /\ ~BuyBranch(sd.signal, in_position)
        /\ SellBranch(sd.signal, in_position)
        /\ portfolio_manager' =
               UpdateBalanceAfterTrade(portfolio_manager, close, entry_price, position_size)
        /\ ledger_updates' = ledger_updates + 1
        /\ trades' = Append(trades,
               TradeRecord(entry_time, i + 1, close, entry_price, position_size))
        /\ in_position' = FALSE
        /\ branch' = "sell"
        /\ UNCHANGED <<entry_price, stop_loss_price, position_size, entry_time, entries>>

\* neither branch of lines 68-82 applies
NoTransition ==
    \E close \in Closes, sd \in Decisions :
        /\ NextRow(close)
        /\ ~StopLossHit(in_position, close, stop_loss_price)
        /\ GenerateSignal(sd)
        /\ ~BuyBranch(sd.signal, in_position)
        /\ ~SellBranch(sd.signal, in_position)
        /\ branch' = "no_transition"
        /\ UNCHANGED <<portfolio_manager, trades, in_position, entry_price,
                       stop_loss_price, position_size, entry_time,
                       ledger_updates, entries>>

\* _generate_report: the labels of the lines printed for each kind of report
ReportLines(kind) ==
    CASE kind = "no_trades" ->
             {"No trades were executed during the backtest period."}
      [] kind = "metrics" ->
             {"Ending Balance", "Total Return", "Total Trades", "Win Rate",
              "Average Win", "Average Loss", "Reward/Risk Ratio"}
      [] OTHER -> {}

RAbs(a) == [n |-> Abs(a.n), d |-> a.d]

RECURSIVE SumSeq(_)
SumSeq(xs) == IF xs = << >> THEN Zero ELSE RAdd(xs[1], SumSeq(Tail(xs)))

\* np.mean of a non-empty list
Mean(xs) == RDiv(SumSeq(xs), R(Len(xs)))

\* a / b in floats: ZeroDivisionError for b = 0
FloatDiv(a, b) ==
    IF b = Zero THEN [kind |-> "ZeroDivisionError", val |-> Zero]
    ELSE [kind |-> "value", val |-> RDiv(a, b)]

PnlValues(trs) == [k \in 1..Len(trs) |-> trs[k].pnl]

\* wins that take in the trades with pnl = 0
ReportWins_OrZero(pnl_values) ==
    LET NotLoss(p) == p.n >= 0 IN SelectSeq(pnl_values, NotLoss)

\* line 97: wins = [p for p in pnl_values if p > 0]
ReportWins(pnl_values) ==
    LET IsWin(p) == p.n > 0 IN SelectSeq(pnl_values, IsWin)

\* line 98: losses = [p for p in pnl_values if p < 0]
ReportLosses(pnl_values) ==
    LET IsLoss(p) == p.n < 0 IN SelectSeq(pnl_values, IsLoss)

\* the ratio guarded by avg_win instead of avg_loss
RewardRiskRatio_GuardsWin(avg_win, avg_loss) ==
    IF avg_win # Zero
    THEN LET q == FloatDiv(avg_win, avg_loss)
         IN  [kind |-> q.kind, val |-> RAbs(q.val)]
    ELSE [kind |-> "inf", val |-> Zero]

\* line 105: abs(avg_win / avg_loss) if avg_loss != 0 else np.inf
RewardRiskRatio(avg_win, avg_loss) ==
    IF avg_loss # Zero
    THEN LET q == FloatDiv(avg_win, avg_loss)
         IN  [kind |-> q.kind, val |-> RAbs(q.val)]
    ELSE [kind |-> "inf", val |-> Zero]

\* a report that always computes the metrics
ReportKind_AlwaysMetrics(trs) == "metrics"

\* lines 92-94: an empty log prints one line and returns
ReportKind(trs) == IF trs = << >> THEN "no_trades" ELSE "metrics"

\* lines 96-105: the locals of _generate_report for a non-empty log
ReportMetrics(trs, pm) ==
    LET pnl_values == PnlValues(trs)
        wins       == ReportWins(pnl_values)
        losses     == ReportLosses(pnl_values)
        num_trades == Len(trs)
        avg_win    == IF wins # << >> THEN Mean(wins) ELSE Zero
        avg_loss   == IF losses # << >> THEN Mean(losses) ELSE Zero
    IN  [wins         |-> wins,
         losses       |-> losses,
         total_return |-> RMul(RAdd(RDiv(pm.balance, pm.initial_balance), R(-1)), R(100)),
         num_trades   |-> num_trades,
         win_rate     |-> IF num_trades > 0
                          THEN RMul(RDiv(R(Len(wins)), R(num_trades)), R(100))
                          ELSE Zero,
         avg_win      |-> avg_win,
         avg_loss     |-> avg_loss,
         reward_risk_ratio |-> RewardRiskRatio(avg_win, avg_loss)]

\* the report made before the rows are exhausted
GenerateReport_Early ==
    /\ UNCHANGED others
    /\ pc = "loop"
    /\ i >= n - 1
    /\ pc' = "done"
    /\ report' = ReportKind(trades)
    /\ metrics' = IF ReportKind(trades) = "metrics"
                  THEN Some(ReportMetrics(trades, portfolio_manager))
                  ELSE None
    /\ UNCHANGED <<config, portfolio_manager, trades, n, i, row, signal_details,
                   in_position, entry_price, stop_loss_price, position_size,
                   entry_time, branch, ledger_updates, entries, signal_calls>>

\* line 85 and _generate_report: the loop is exhausted
GenerateReport ==
    /\ UNCHANGED others
    /\ pc = "loop"
    /\ i = n
    /\ pc' = "done"
    /\ report' = ReportKind(trades)
    /\ metrics' = IF ReportKind(trades) = "metrics"
                  THEN Some(ReportMetrics(trades, portfolio_manager))
                  ELSE None
    /\ UNCHANGED <<config, portfolio_manager, trades, n, i, row, signal_details,
                   in_position, entry_price, stop_loss_price, position_size,
                   entry_time, branch, ledger_updates, entries, signal_calls>>

Next ==
    \/ AbortEmpty
    \/ StartLoop
    \/ StopLossExit
    \/ BuyNoStopLoss
    \/ BuySized
    \/ SellExit
    \/ NoTransition
    \/ GenerateReport

Spec == Init /\ [][Next]_vars

----------------------------------------------------------------------------
\* calculate_position_size on its own: the arguments and the manager's
\* balance and the configured percentage are drawn from small sets

SizerBalances == {R(1000), R(100), Zero, R(-20), [n |-> 1, d |-> 2]}

SizerPercents == {1, 2, 50}

SizerEntries == {95, 100, 103}

SizerStops == {-5, 0, 95, 99, 100, 110}

SizerInit ==
    /\ pc = "sizer"
    /\ \E pct \in SizerPercents :
           config = [ConfigurationManager EXCEPT !.risk_per_trade_percent = pct]
    /\ \E b \in SizerBalances :
           portfolio_manager = [PortfolioManagerInit(config) EXCEPT !.balance = b]
    /\ entry_price \in SizerEntries
    /\ stop_loss_price \in {Some(s) : s \in SizerStops}
    /\ trades = << >>
    /\ n = 0
    /\ i = 0
    /\ row = NoRow
    /\ signal_details = [signal |-> "hold", stop_loss |-> None]
    /\ in_position = FALSE
    /\ position_size = Zero
    /\ entry_time = None
    /\ branch = "none"
    /\ ledger_updates = 0
    /\ entries = 0
    /\ signal_calls = 0
    /\ report = "none"
    /\ metrics = None
    /\ shelf = None
    /\ data = << >>
    /\ sentiment = "neutral"
    /\ trader = TraderIdle

SizerCall ==
    /\ UNCHANGED others
    /\ pc = "sizer"
    /\ pc' = "sized"
    /\ LET r == CalculatePositionSize(portfolio_manager, config, entry_price, stop_loss_price[1])
       IN  /\ position_size' = r.ret
           /\ portfolio_manager' = r.pm
    /\ UNCHANGED <<config, trades, n, i, row, signal_details, in_position, entry_price,
                   stop_loss_price, entry_time, branch, ledger_updates, entries,
                   signal_calls, report, metrics>>

SizerNext == SizerCall

SpecSizer == SizerInit /\ [][SizerNext]_vars

----------------------------------------------------------------------------
\* the state of a Backtester that has not run
BacktesterIdle(cfg) ==
    /\ config = cfg
    /\ portfolio_manager = PortfolioManagerInit(config)
    /\ trades = << >>
    /\ n = 0
    /\ i = 0
    /\ row = NoRow
    /\ signal_details = [signal |-> "hold", stop_loss |-> None]
    /\ in_position = FALSE
    /\ entry_price = 0
    /\ stop_loss_price = None
    /\ position_size = Zero
    /\ entry_time = None
    /\ branch = "none"
    /\ ledger_updates = 0
    /\ entries = 0
    /\ signal_calls = 0
    /\ report = "none"
    /\ metrics = None

\* One call of generate_signal on a frame of up to MaxFrame rows
MaxFrame == 3
SmaValues == {None, Some(R(99)), Some(R(100)), Some([n |-> 201, d |-> 2])}
SmaRows == [short_sma : SmaValues, long_sma : SmaValues]

SignalInit ==
    /\ pc = "signal"
    /\ data \in UNION {[1..k -> SmaRows] : k \in 0..MaxFrame}
    /\ sentiment \in Sentiments
    /\ trader = TraderIdle
    /\ BacktesterIdle(ConfigurationManager)
    /\ shelf = None

SignalCall ==
    /\ pc = "signal"
    /\ pc' = "signalled"
    /\ signal_details' = [signal |-> SentimentMomentumSignal(data, sentiment),
                          stop_loss |-> None]
    /\ signal_calls' = signal_calls + 1
    /\ UNCHANGED others
    /\ UNCHANGED <<config, portfolio_manager, trades, n, i, row, in_position,
                   entry_price, stop_loss_price, position_size, entry_time, branch,
                   ledger_updates, entries, report, metrics>>

SignalNext == SignalCall

SpecSignal == SignalInit /\ [][SignalNext]_vars

----------------------------------------------------------------------------
\* A backtest of a given close sequence with short_window 2 and long_window
\* 3: the closes 100, 101, 99, 98, 97, 96, after any earlier closes of up to
\* MaxPrefix bars.

ScenarioCloses == <<100, 101, 99, 98, 97, 96>>
MaxPrefix == 3
PrefixCloses == {98, 99, 100}

ScenarioConfig ==
    [ConfigurationManager EXCEPT !.sm_short_window = 2, !.sm_long_window = 3]

ScenarioInit ==
    /\ pc = "start"
    /\ \E k \in 0..MaxPrefix : \E prefix \in [1..k -> PrefixCloses] :
           data = Frame(prefix \o ScenarioCloses)
    /\ sentiment = MockSentiment
    /\ trader = TraderIdle
    /\ BacktesterIdle(ScenarioConfig)
    /\ shelf = None

ScenarioNext ==
    \/ StartLoop
    \/ StopLossExit
    \/ BuyNoStopLoss
    \/ BuySized
    \/ SellExit
    \/ NoTransition
    \/ GenerateReport

SpecScenario == ScenarioInit /\ [][ScenarioNext]_vars

\* The for loop over the rows of a finite frame always takes its next step,
\* and the report follows the loop.
FairScenario == SpecScenario /\ WF_vars(ScenarioNext)

----------------------------------------------------------------------------
\* Two Backtesters over frames of MaxRunBars bars.  One of them runs; the
\* other is suspended on the shelf with all of its state, and Switch hands
\* the processor from one to the other between any two steps.  Each frame
\* carries the stop-loss of its rows as a column, StopOffset below the close.

MaxRunBars == 5

RunCloses == {98, 102}

StopOffset == 3

FrameWithStops(closes) ==
    [k \in 1..Len(closes) |->
        [close |-> closes[k], timestamp |-> k, short_sma |-> None, long_sma |-> None,
         stop_loss |-> Some(closes[k] - StopOffset)]]

\* a Backtester after __init__, handed the frame df by run
IdleRun(cfg, df) ==
    [pc |-> "start", config |-> cfg, portfolio_manager |-> PortfolioManagerInit(cfg),
     trades |-> << >>, n |-> 0, i |-> 0, row |-> NoRow,
     signal_details |-> [signal |-> "hold", stop_loss |-> None],
     in_position |-> FALSE, entry_price |-> 0, stop_loss_price |-> None,
     position_size |-> Zero, entry_time |-> None, branch |-> "none",
     ledger_updates |-> 0, entries |-> 0, signal_calls |-> 0, report |-> "none",
     metrics |-> None, data |-> df]

\* the state of the Backtester that is running
ThisRun ==
    [pc |-> pc, config |-> config, portfolio_manager |-> portfolio_manager,
     trades |-> trades, n |-> n, i |-> i, row |-> row,
     signal_details |-> signal_details,
     in_position |-> in_position, entry_price |-> entry_price,
     stop_loss_price |-> stop_loss_price,
     position_size |-> position_size, entry_time |-> entry_time, branch |-> branch,
     ledger_updates |-> ledger_updates, entries |-> entries,
     signal_calls |-> signal_calls, report |-> report,
     metrics |-> metrics, data |-> data]

TwoRunsInit ==
    /\ pc = "start"
    /\ \E c1 \in [1..MaxRunBars -> RunCloses], c2 \in [1..MaxRunBars -> RunCloses] :
           /\ data = FrameWithStops(c1)
           /\ shelf = Some(IdleRun(ScenarioConfig, FrameWithStops(c2)))
    /\ sentiment = MockSentiment
    /\ trader = TraderIdle
    /\ BacktesterIdle(ScenarioConfig)

\* the running Backtester portfolio_manager is kept by the one that takes over
Switch_SharedPortfolio ==
    /\ shelf # None
    /\ shelf' = Some(ThisRun)
    /\ pc' = shelf[1].pc
    /\ config' = shelf[1].config
    /\ portfolio_manager' = portfolio_manager
    /\ trades' = shelf[1].trades
    /\ n' = shelf[1].n
    /\ i' = shelf[1].i
    /\ row' = shelf[1].row
    /\ signal_details' = shelf[1].signal_details
    /\ in_position' = shelf[1].in_position
    /\ entry_price' = shelf[1].entry_price
    /\ stop_loss_price' = shelf[1].stop_loss_price
    /\ position_size' = shelf[1].position_size
    /\ entry_time' = shelf[1].entry_time
    /\ branch' = shelf[1].branch
    /\ ledger_updates' = shelf[1].ledger_updates
    /\ entries' = shelf[1].entries
    /\ signal_calls' = shelf[1].signal_calls
    /\ report' = shelf[1].report
    /\ metrics' = shelf[1].metrics
    /\ data' = shelf[1].data
    /\ UNCHANGED <<sentiment, trader>>

\* the running Backtester is suspended and the suspended one resumes: each
\* keeps its own attributes and locals, its PortfolioManager included
Switch ==
    /\ shelf # None
    /\ shelf' = Some(ThisRun)
    /\ pc' = shelf[1].pc
    /\ config' = shelf[1].config
    /\ portfolio_manager' = shelf[1].portfolio_manager
    /\ trades' = shelf[1].trades
    /\ n' = shelf[1].n
    /\ i' = shelf[1].i
    /\ row' = shelf[1].row
    /\ signal_details' = shelf[1].signal_details
    /\ in_position' = shelf[1].in_position
    /\ entry_price' = shelf[1].entry_price
    /\ stop_loss_price' = shelf[1].stop_loss_price
    /\ position_size' = shelf[1].position_size
    /\ entry_time' = shelf[1].entry_time
    /\ branch' = shelf[1].branch
    /\ ledger_updates' = shelf[1].ledger_updates
    /\ entries' = shelf[1].entries
    /\ signal_calls' = shelf[1].signal_calls
    /\ report' = shelf[1].report
    /\ metrics' = shelf[1].metrics
    /\ data' = shelf[1].data
    /\ UNCHANGED <<sentiment, trader>>

TwoRunsNext ==
    \/ StartLoop
    \/ StopLossExit
    \/ BuySized
    \/ SellExit
    \/ NoTransition
    \/ GenerateReport
    \/ Switch

SpecTwoRuns == TwoRunsInit /\ [][TwoRunsNext]_vars

----------------------------------------------------------------------------
\* Trader.run (strategy_engine.py): the live loop.  One action is one pass
\* of the while loop, from fetch_ohlcv to the sleep that ends it, or to the
\* continue that starts the next pass without one.  The latest candle's close
\* and the strategy engine's decision are inputs of the pass.

MaxIterations == 4
RetrySleep == 60
CandleSleep == 3600

Strategies == {"SENTIMENT_MOMENTUM", "MEAN_REVERSION"}

\* _get_strategy_config_from_manager returns a dict for this name only and
\* raises ValueError for any other
Recognized(cfg) == cfg.active_strategy = "SENTIMENT_MOMENTUM"

\* PortfolioManager of strategy_engine.py
TraderPortfolioManagerInit(cfg) ==
    [balance            |-> R(cfg.capital_base),
     last_position_size |-> Zero,
     realized_pnl       |-> Zero]

TraderCalculatePositionSize(pm, cfg, entry, stop) ==
    LET risk_amount_dollars   == RDiv(RMul(pm.balance, R(cfg.risk_per_trade_percent)), R(100))
        risk_per_coin_dollars == entry - stop
    IN  IF risk_per_coin_dollars <= 0
        THEN [ret |-> Zero, pm |-> pm]
        ELSE LET size == RDiv(risk_amount_dollars, R(risk_per_coin_dollars))
             IN  [ret |-> size, pm |-> [pm EXCEPT !.last_position_size = size]]

TraderUpdateBalanceAfterTrade(pm, exit_price, entry, size) ==
    LET pnl == RMul(R(exit_price - entry), size)
    IN  [pm EXCEPT !.balance = RAdd(pm.balance, pnl),
                   !.realized_pnl = RAdd(pm.realized_pnl, pnl)]

\* ExecutionHandler.execute_order of strategy_engine.py: the results it may
\* return.  A dry run returns True.  Live mode returns True as well, unless a
\* statement of its try block raises, in which case the except clause
\* returns False.
ExecuteOrder(cfg, order_type) == IF cfg.dry_run THEN {TRUE} ELSE {TRUE, FALSE}

backtester == <<pc, config, portfolio_manager, trades, n, i, row, signal_details,
                in_position, entry_price, stop_loss_price, position_size, entry_time,
                branch, ledger_updates, entries, signal_calls, report, metrics, data, sentiment,
                shelf>>

TraderInit ==
    /\ pc = "trader"
    /\ data = << >>
    /\ sentiment \in Sentiments
    /\ \E name \in Strategies :
           BacktesterIdle([ConfigurationManager EXCEPT !.active_strategy = name])
    /\ shelf = None
    /\ trader = [pc              |-> "running",
                 in_position     |-> FALSE,
                 stop_loss_price |-> None,
                 entry_price     |-> 0,
                 close           |-> 0,
                 pm              |-> TraderPortfolioManagerInit(config),
                 fetches         |-> 0,
                 errors          |-> 0,
                 orders          |-> 0,
                 order_result    |-> None,
                 slept           |-> 0,
                 branch          |-> "none"]

\* fetch_ohlcv at the top of a pass
TraderFetch == trader.pc = "running" /\ trader.fetches < MaxIterations

\* lines 136-138: an empty frame: sleep 60 and continue
TraderEmptyFetch ==
    /\ TraderFetch
    /\ trader' = [trader EXCEPT !.fetches = @ + 1, !.slept = RetrySleep,
                                !.order_result = None, !.branch = "empty"]
    /\ UNCHANGED backtester

\* line 141 raising ValueError inside the try: caught at line 198, printed,
\* and the pass ends with the sleep of line 202
TraderStrategyError ==
    /\ TraderFetch
    /\ ~Recognized(config)
    /\ trader' = [trader EXCEPT !.fetches = @ + 1, !.errors = @ + 1, !.order_result = None,
                                !.slept = CandleSleep, !.branch = "error"]
    /\ UNCHANGED backtester

\* lines 147-157: stop-loss exit, then continue
TraderStopLoss ==
    \E close \in Prices :
        /\ TraderFetch
        /\ Recognized(config)
        /\ trader.in_position /\ close <= trader.stop_loss_price[1]
        /\ \E order_result \in ExecuteOrder(config, "sell") :
           trader' =
               IF order_result
               THEN [trader EXCEPT
                        !.fetches = @ + 1, !.orders = @ + 1, !.slept = 0,
                        !.order_result = Some(order_result),
                        !.branch = "stop_loss", !.close = close,
                        !.pm = TraderUpdateBalanceAfterTrade(trader.pm, close,
                                   trader.entry_price, trader.pm.last_position_size),
                        !.in_position = FALSE,
                        !.stop_loss_price = None,
                        !.entry_price = 0]
               ELSE [trader EXCEPT
                        !.fetches = @ + 1, !.orders = @ + 1, !.slept = 0,
                        !.order_result = Some(order_result),
                        !.branch = "stop_loss", !.close = close]
        /\ UNCHANGED backtester

\* lines 165-170: a buy without a stop-loss: continue
TraderBuyNoStopLoss ==
    \E close \in Prices, sd \in SignalDetails :
        /\ TraderFetch
        /\ Recognized(config)
        /\ ~(trader.in_position /\ close <= trader.stop_loss_price[1])
        /\ sd.signal = "buy" /\ ~trader.in_position
        /\ ~Truthy(sd.stop_loss)
        /\ trader' = [trader EXCEPT !.fetches = @ + 1, !.slept = 0,
                                    !.order_result = None,
                                    !.stop_loss_price = sd.stop_loss,
                                    !.branch = "buy_no_stop", !.close = close]
        /\ UNCHANGED backtester

\* lines 165-182: a buy with a stop-loss
TraderBuy ==
    \E close \in Prices, sd \in SignalDetails :
        /\ TraderFetch
        /\ Recognized(config)
        /\ ~(trader.in_position /\ close <= trader.stop_loss_price[1])
        /\ sd.signal = "buy" /\ ~trader.in_position
        /\ Truthy(sd.stop_loss)
        /\ LET r == TraderCalculatePositionSize(trader.pm, config, close, sd.stop_loss[1])
           IN  \E order_result \in ExecuteOrder(config, "buy") :
               trader' =
                   IF RPos(r.ret)
                   THEN IF order_result
                        THEN [trader EXCEPT
                                 !.fetches = @ + 1, !.orders = @ + 1,
                                 !.order_result = Some(order_result),
                                 !.slept = CandleSleep, !.branch = "enter", !.close = close,
                                 !.stop_loss_price = sd.stop_loss, !.pm = r.pm,
                                 !.in_position = TRUE, !.entry_price = close]
                        ELSE [trader EXCEPT
                                 !.fetches = @ + 1, !.orders = @ + 1,
                                 !.order_result = Some(order_result),
                                 !.slept = CandleSleep, !.branch = "order_failed", !.close = close,
                                 !.stop_loss_price = sd.stop_loss, !.pm = r.pm]
                   ELSE [trader EXCEPT
                            !.fetches = @ + 1, !.slept = CandleSleep,
                            !.order_result = None,
                            !.branch = "size_rejected", !.close = close,
                            !.stop_loss_price = sd.stop_loss, !.pm = r.pm]
        /\ UNCHANGED backtester

\* the sell branch that books the exit whatever execute_order returned
TraderSell_IgnoresResult ==
    \E close \in Prices, sd \in SignalDetails :
        /\ TraderFetch
        /\ Recognized(config)
        /\ trader.in_position /\ close > trader.stop_loss_price[1]
        /\ sd.signal = "sell"
        /\ \E order_result \in ExecuteOrder(config, "sell") :
           trader' =
               [trader EXCEPT
                   !.fetches = @ + 1, !.orders = @ + 1, !.slept = CandleSleep,
                   !.order_result = Some(order_result),
                   !.branch = "sell", !.close = close,
                   !.pm = TraderUpdateBalanceAfterTrade(trader.pm, close,
                              trader.entry_price, trader.pm.last_position_size),
                   !.in_position = FALSE,
                   !.stop_loss_price = None,
                   !.entry_price = 0]
        /\ UNCHANGED backtester

\* lines 184-192: sell while in position
TraderSell ==
    \E close \in Prices, sd \in SignalDetails :
        /\ TraderFetch
        /\ Recognized(config)
        /\ trader.in_position /\ close > trader.stop_loss_price[1]
        /\ sd.signal = "sell"
        /\ \E order_result \in ExecuteOrder(config, "sell") :
           trader' =
               IF order_result
               THEN [trader EXCEPT
                        !.fetches = @ + 1, !.orders = @ + 1, !.slept = CandleSleep,
                        !.order_result = Some(order_result),
                        !.branch = "sell", !.close = close,
                        !.pm = TraderUpdateBalanceAfterTrade(trader.pm, close,
                                   trader.entry_price, trader.pm.last_position_size),
                        !.in_position = FALSE,
                        !.stop_loss_price = None,
                        !.entry_price = 0]
               ELSE [trader EXCEPT
                        !.fetches = @ + 1, !.orders = @ + 1, !.slept = CandleSleep,
                        !.order_result = Some(order_result),
                        !.branch = "sell", !.close = close]
        /\ UNCHANGED backtester

\* lines 194-196: every other decision
TraderHold ==
    \E close \in Prices, sd \in SignalDetails :
        /\ TraderFetch
        /\ Recognized(config)
        /\ ~(trader.in_position /\ close <= trader.stop_loss_price[1])
        /\ ~(sd.signal = "buy" /\ ~trader.in_position)
        /\ ~(sd.signal = "sell" /\ trader.in_position)
        /\ trader' = [trader EXCEPT !.fetches = @ + 1, !.slept = CandleSleep,
                                    !.order_result = None,
                                    !.branch = "hold", !.close = close]
        /\ UNCHANGED backtester

TraderNext ==
    \/ TraderEmptyFetch
    \/ TraderStrategyError
    \/ TraderStopLoss
    \/ TraderBuyNoStopLoss
    \/ TraderBuy
    \/ TraderSell
    \/ TraderHold

SpecTrader == TraderInit /\ [][TraderNext]_vars

\* The same loop with dry_run set to False in the ConfigurationManager
TraderLiveInit ==
    /\ pc = "trader"
    /\ data = << >>
    /\ sentiment \in Sentiments
    /\ \E name \in Strategies :
           BacktesterIdle([ConfigurationManager EXCEPT !.active_strategy = name,
                                                      !.dry_run = FALSE])
    /\ shelf = None
    /\ trader = [pc              |-> "running",
                 in_position     |-> FALSE,
                 stop_loss_price |-> None,
                 entry_price     |-> 0,
                 close           |-> 0,
                 pm              |-> TraderPortfolioManagerInit(config),
                 fetches         |-> 0,
                 errors          |-> 0,
                 orders          |-> 0,
                 order_result    |-> None,
                 slept           |-> 0,
                 branch          |-> "none"]

SpecTraderLive == TraderLiveInit /\ [][TraderNext]_vars

----------------------------------------------------------------------------
\* Trader.run of main.py: the other live loop.  It computes the stop-loss of
\* a buy itself, from the latest candle, and its PortfolioManager (main.py)
\* has no ledger: the balance never changes.  One action is one pass of the
\* loop; the latest candle and the strategy engine's signal are its inputs.

MainCloses == {94, 97, 100}
MainAtrs == {R(2), R(4)}
MainCandles ==
    {c \in [low : MainCloses, close : MainCloses, atr : MainAtrs] : c.low <= c.close}
MainSignals == {"buy", "sell", "hold"}

RNeg(a) == [n |-> 0 - a.n, d |-> a.d]

MainPortfolioManagerInit(cfg) ==
    [balance |-> R(cfg.capital_base), last_position_size |-> Zero]

\* calculate_position_size of main.py, on a float stop price
MainCalculatePositionSize(pm, cfg, entry, stop) ==
    LET risk_amount_dollars == RDiv(RMul(pm.balance, R(cfg.risk_per_trade_percent)), R(100))
        price_risk_per_unit == RAdd(R(entry), RNeg(stop))
    IN  IF price_risk_per_unit.n <= 0
        THEN [ret |-> Zero, pm |-> pm]
        ELSE LET size == RDiv(risk_amount_dollars, price_risk_per_unit)
             IN  [ret |-> size, pm |-> [pm EXCEPT !.last_position_size = size]]

\* the stop-loss of a buy measured from the candle's low
MainStopLoss_FromLow(candle, cfg) ==
    RAdd(R(candle.low), RNeg(RMul(candle.atr, cfg.sm_atr_multiplier)))

\* lines 179-180: entry_price - atr_value * sm_atr_multiplier
MainStopLoss(candle, cfg) ==
    RAdd(R(candle.close), RNeg(RMul(candle.atr, cfg.sm_atr_multiplier)))

\* line 165: in_position and close < stop_loss_price
MainStopLossHit(inpos, close, slp) == inpos /\ RLt(R(close), slp[1])

MainInit ==
    /\ pc = "main"
    /\ data = << >>
    /\ sentiment \in Sentiments
    /\ \E name \in Strategies :
           BacktesterIdle([ConfigurationManager EXCEPT !.active_strategy = name])
    /\ shelf = None
    /\ trader = [pc              |-> "running",
                 in_position     |-> FALSE,
                 stop_loss_price |-> None,
                 pm              |-> MainPortfolioManagerInit(config),
                 candle          |-> [low |-> 0, close |-> 0, atr |-> Zero],
                 fetches         |-> 0,
                 errors          |-> 0,
                 orders          |-> 0,
                 slept           |-> 0,
                 branch          |-> "none"]

\* one more pass of the while loop
MainPass == trader.pc = "running" /\ trader.fetches + trader.errors < MaxIterations

\* lines 150-152 and 208-210: no strategy config: ValueError, caught, sleep 60
MainStrategyError ==
    /\ MainPass
    /\ ~Recognized(config)
    /\ trader' = [trader EXCEPT !.errors = @ + 1, !.slept = RetrySleep,
                                !.branch = "error"]
    /\ UNCHANGED backtester

\* lines 155-158: no frame: sleep 60 and continue
MainEmptyFetch ==
    /\ MainPass
    /\ Recognized(config)
    /\ trader' = [trader EXCEPT !.fetches = @ + 1, !.slept = RetrySleep,
                                !.branch = "empty"]
    /\ UNCHANGED backtester

\* lines 164-170: stop-loss exit, then continue
MainStopLossExit ==
    \E candle \in MainCandles :
        /\ MainPass
        /\ Recognized(config)
        /\ MainStopLossHit(trader.in_position, candle.close, trader.stop_loss_price)
        /\ trader' = [trader EXCEPT
                         !.fetches = @ + 1, !.orders = @ + 1, !.slept = 0,
                         !.candle = candle, !.branch = "stop_loss",
                         !.in_position = FALSE,
                         !.stop_loss_price = None]
        /\ UNCHANGED backtester

\* lines 177-190: buy while flat
MainBuy ==
    \E candle \in MainCandles, signal \in MainSignals :
        /\ MainPass
        /\ Recognized(config)
        /\ ~MainStopLossHit(trader.in_position, candle.close, trader.stop_loss_price)
        /\ signal = "buy" /\ ~trader.in_position
        /\ LET stop == MainStopLoss(candle, config)
               r    == MainCalculatePositionSize(trader.pm, config, candle.close, stop)
           IN  trader' =
                   IF RPos(r.ret)
                   THEN [trader EXCEPT
                            !.fetches = @ + 1, !.orders = @ + 1,
                            !.slept = CandleSleep, !.candle = candle,
                            !.branch = "enter",
                            !.stop_loss_price = Some(stop), !.pm = r.pm,
                            !.in_position = TRUE]
                   ELSE [trader EXCEPT
                            !.fetches = @ + 1, !.slept = CandleSleep,
                            !.candle = candle, !.branch = "size_rejected",
                            !.stop_loss_price = Some(stop), !.pm = r.pm]
        /\ UNCHANGED backtester

\* lines 192-196: sell while in position
MainSell ==
    \E candle \in MainCandles, signal \in MainSignals :
        /\ MainPass
        /\ Recognized(config)
        /\ ~MainStopLossHit(trader.in_position, candle.close, trader.stop_loss_price)
        /\ signal = "sell" /\ trader.in_position
        /\ trader' = [trader EXCEPT
                         !.fetches = @ + 1, !.orders = @ + 1, !.slept = CandleSleep,
                         !.candle = candle, !.branch = "sell",
                         !.in_position = FALSE,
                         !.stop_loss_price = None]
        /\ UNCHANGED backtester

\* lines 198-203: every other signal
MainHold ==
    \E candle \in MainCandles, signal \in MainSignals :
        /\ MainPass
        /\ Recognized(config)
        /\ ~MainStopLossHit(trader.in_position, candle.close, trader.stop_loss_price)
        /\ ~(signal = "buy" /\ ~trader.in_position)
        /\ ~(signal = "sell" /\ trader.in_position)
        /\ trader' = [trader EXCEPT !.fetches = @ + 1, !.slept = CandleSleep,
                                    !.candle = candle, !.branch = "hold"]
        /\ UNCHANGED backtester

MainNext ==
    \/ MainStrategyError
    \/ MainEmptyFetch
    \/ MainStopLossExit
    \/ MainBuy
    \/ MainSell
    \/ MainHold

SpecMain == MainInit /\ [][MainNext]_vars

----------------------------------------------------------------------------
\* _generate_report on a given trade log of up to MaxTrades trades

MaxTrades == 3
ReportPnls == {R(-10), R(-5), Zero, R(10)}

ReportInit ==
    /\ pc = "report"
    /\ data = << >>
    /\ sentiment = MockSentiment
    /\ trader = TraderIdle
    /\ config = ConfigurationManager
    /\ \E k \in 0..MaxTrades : \E pnls \in [1..k -> ReportPnls] :
           /\ trades = [j \in 1..k |->
                           [entry_date |-> Some(2 * j - 1), exit_date |-> 2 * j,
                            pnl |-> pnls[j]]]
           /\ portfolio_manager =
                  [PortfolioManagerInit(config) EXCEPT
                      !.balance = RAdd(R(config.capital_base), SumSeq(pnls)),
                      !.realized_pnl = SumSeq(pnls)]
    /\ n = 0
    /\ i = 0
    /\ row = NoRow
    /\ signal_details = [signal |-> "hold", stop_loss |-> None]
    /\ in_position = FALSE
    /\ entry_price = 0
    /\ stop_loss_price = None
    /\ position_size = Zero
    /\ entry_time = None
    /\ branch = "none"
    /\ ledger_updates = Len(trades)
    /\ entries = Len(trades)
    /\ signal_calls = 0
    /\ report = "none"
    /\ metrics = None
    /\ shelf = None

ReportCall ==
    /\ UNCHANGED others
    /\ pc = "report"
    /\ pc' = "reported"
    /\ report' = ReportKind(trades)
    /\ metrics' = IF ReportKind(trades) = "metrics"
                  THEN Some(ReportMetrics(trades, portfolio_manager))
                  ELSE None
    /\ UNCHANGED <<config, portfolio_manager, trades, n, i, row, signal_details,
                   in_position, entry_price, stop_loss_price, position_size,
                   entry_time, branch, ledger_updates, entries, signal_calls>>

ReportNext == ReportCall

SpecReport == ReportInit /\ [][ReportNext]_vars

----------------------------------------------------------------------------
\* The two ledger methods that close a position, called on their own:
\* update_balance_after_trade of execution_handler.py and close_position of
\* portfolio_manager.py.  in_position, entry_price and position_size stand for
\* the open position (current_position of portfolio_manager.py), and branch
\* records how the call ended.

LedgerBalances == {R(90), R(100)}

LedgerSizes == {R(1), [n |-> 1, d |-> 2], R(2)}

\* close_position of portfolio_manager.py: the manager and the position afterwards
ClosePosition(pm, open, entry, size, exit_price) ==
    IF ~open THEN [pm |-> pm, open |-> FALSE]
    ELSE [pm   |-> [pm EXCEPT !.balance = RAdd(pm.balance, Pnl(exit_price, entry, size))],
          open |-> FALSE]

LedgerInit ==
    /\ pc = "ledger"
    /\ config = ConfigurationManager
    /\ \E b \in LedgerBalances :
           portfolio_manager = [PortfolioManagerInit(config) EXCEPT !.balance = b]
    /\ in_position \in BOOLEAN
    /\ entry_price \in Prices
    /\ position_size \in LedgerSizes
    /\ trades = << >>
    /\ n = 0
    /\ i = 0
    /\ row = NoRow
    /\ signal_details = [signal |-> "hold", stop_loss |-> None]
    /\ stop_loss_price = None
    /\ entry_time = None
    /\ branch = "none"
    /\ ledger_updates = 0
    /\ entries = 0
    /\ signal_calls = 0
    /\ report = "none"
    /\ metrics = None
    /\ data = << >>
    /\ sentiment = "neutral"
    /\ trader = TraderIdle
    /\ shelf = None

\* update_balance_after_trade(exit_price, entry_price, position_size): the
\* method takes no open position into account and returns
LedgerUpdateBalanceAfterTrade ==
    /\ pc = "ledger"
    /\ \E exit_price \in Prices :
           /\ portfolio_manager' = UpdateBalanceAfterTrade(portfolio_manager, exit_price,
                                                           entry_price, position_size)
           /\ row' = [close |-> exit_price, timestamp |-> 0]
    /\ ledger_updates' = ledger_updates + 1
    /\ branch' = "returned"
    /\ pc' = "ledgered"
    /\ UNCHANGED <<config, trades, n, i, signal_details, in_position, entry_price,
                   stop_loss_price, position_size, entry_time, entries, signal_calls,
                   report, metrics>>
    /\ UNCHANGED others

\* close_position(exit_price): returns at once when current_position is None
LedgerClosePosition ==
    /\ pc = "ledger"
    /\ \E exit_price \in Prices :
           LET r == ClosePosition(portfolio_manager, in_position, entry_price,
                                  position_size, exit_price)
           IN  /\ portfolio_manager' = r.pm
               /\ in_position' = r.open
               /\ row' = [close |-> exit_price, timestamp |-> 0]
    /\ branch' = "returned"
    /\ pc' = "ledgered"
    /\ UNCHANGED <<config, trades, n, i, signal_details, entry_price, stop_loss_price,
                   position_size, entry_time, ledger_updates, entries, signal_calls,
                   report, metrics>>
    /\ UNCHANGED others

LedgerNext == LedgerUpdateBalanceAfterTrade \/ LedgerClosePosition

SpecLedger == LedgerInit /\ [][LedgerNext]_vars

----------------------------------------------------------------------------
\* ExecutionHandler.execute_order of main.py (the same code is in config.py),
\* called on its own.  The Trader record holds the arguments of the call, what
\* the exchange would do with a request, the requests the call made and the
\* result it returned.

OrderSides == {"buy", "sell", "hold"}

OrderAmounts == {Zero, [n |-> 1, d |-> 2], R(1), R(2), R(5), R(-1)}

ExchangeOutcomes == {"filled", "raises"}

\* every request reaches the exchange, dry run or not
MainExecuteOrder_AlwaysLive(cfg, side, amount, outcome) ==
    LET ret == IF outcome = "filled" THEN "order" ELSE "None"
    IN  IF side = "buy"
        THEN [ret |-> ret,
              requests |-> <<[method |-> "create_market_buy_order", amount |-> amount]>>]
        ELSE IF side = "sell"
        THEN [ret |-> ret,
              requests |-> <<[method |-> "create_market_sell_order", amount |-> amount]>>]
        ELSE [ret |-> "None", requests |-> << >>]

\* execute_order(side, amount, symbol): the value returned and the requests
\* made to the exchange; an exception of the exchange is caught and None returned
MainExecuteOrder(cfg, side, amount, outcome) ==
    IF cfg.dry_run THEN [ret |-> "dry_run_ok", requests |-> << >>]
    ELSE LET ret == IF outcome = "filled" THEN "order" ELSE "None"
         IN  IF side = "buy"
             THEN [ret |-> ret,
                   requests |-> <<[method |-> "create_market_buy_order", amount |-> amount]>>]
             ELSE IF side = "sell"
             THEN [ret |-> ret,
                   requests |-> <<[method |-> "create_market_sell_order", amount |-> amount]>>]
             ELSE [ret |-> "None", requests |-> << >>]

OrderInit ==
    /\ pc = "order"
    /\ data = << >>
    /\ sentiment = "neutral"
    /\ \E dry \in BOOLEAN : BacktesterIdle([ConfigurationManager EXCEPT !.dry_run = dry])
    /\ shelf = None
    /\ \E side \in OrderSides, amount \in OrderAmounts, outcome \in ExchangeOutcomes :
           trader = [pc |-> "order", side |-> side, amount |-> amount,
                     outcome |-> outcome, ret |-> "none", requests |-> << >>]

OrderCall ==
    /\ pc = "order"
    /\ LET r == MainExecuteOrder(config, trader.side, trader.amount, trader.outcome)
       IN  trader' = [trader EXCEPT !.pc = "ordered", !.ret = r.ret,
                                    !.requests = r.requests]
    /\ pc' = "ordered"
    /\ UNCHANGED <<config, portfolio_manager, trades, n, i, row, signal_details,
                   in_position, entry_price, stop_loss_price, position_size, entry_time,
                   branch, ledger_updates, entries, signal_calls, report, metrics,
                   data, sentiment, shelf>>

OrderNext == OrderCall

SpecOrder == OrderInit /\ [][OrderNext]_vars

----------------------------------------------------------------------------
\* DataHandler._connect_to_exchange (data_handler.py).  One action is one
\* pass of `for attempt in range(max_retries)`, or the raise after the loop.
\* The Trader record holds the loop index, the exceptions of the failed
\* attempts and the seconds slept.

MaxRetries == 5

ConnectRetrySleep == 5

\* what an attempt may raise: ccxt.NetworkError, or any other Exception
ConnectFailures == {"NetworkError", "Exception"}

ConnectInit ==
    /\ pc = "connect"
    /\ data = << >>
    /\ sentiment = "neutral"
    /\ BacktesterIdle(ConfigurationManager)
    /\ shelf = None
    /\ trader = [pc |-> "connect", attempt |-> 0, attempts |-> 0, failures |-> << >>,
                 slept |-> 0, raised |-> "none"]

\* lines 63-78: the attempt succeeds and the exchange is returned
ConnectSucceed ==
    /\ pc = "connect"
    /\ trader.attempt < MaxRetries
    /\ trader' = [trader EXCEPT !.pc = "connected", !.attempts = @ + 1]
    /\ pc' = "connected"
    /\ UNCHANGED <<config, portfolio_manager, trades, n, i, row, signal_details,
                   in_position, entry_price, stop_loss_price, position_size, entry_time,
                   branch, ledger_updates, entries, signal_calls, report, metrics,
                   data, sentiment, shelf>>

\* lines 81-88: the attempt raises; the exception is printed, the loop
\* sleeps 5 s and goes on with the next index
ConnectFail ==
    /\ pc = "connect"
    /\ trader.attempt < MaxRetries
    /\ \E e \in ConnectFailures :
           trader' = [trader EXCEPT !.attempt = @ + 1, !.attempts = @ + 1,
                                    !.failures = Append(@, e),
                                    !.slept = @ + ConnectRetrySleep]
    /\ UNCHANGED <<pc, config, portfolio_manager, trades, n, i, row, signal_details,
                   in_position, entry_price, stop_loss_price, position_size, entry_time,
                   branch, ledger_updates, entries, signal_calls, report, metrics,
                   data, sentiment, shelf>>

\* the loop that gives up one attempt early
ConnectGiveUp_Early ==
    /\ pc = "connect"
    /\ trader.attempt >= MaxRetries - 1
    /\ trader' = [trader EXCEPT !.pc = "raised", !.raised = "ConnectionError"]
    /\ pc' = "connection_error"
    /\ UNCHANGED <<config, portfolio_manager, trades, n, i, row, signal_details,
                   in_position, entry_price, stop_loss_price, position_size, entry_time,
                   branch, ledger_updates, entries, signal_calls, report, metrics,
                   data, sentiment, shelf>>

\* line 90: the loop is exhausted: raise ConnectionError
ConnectGiveUp ==
    /\ pc = "connect"
    /\ trader.attempt = MaxRetries
    /\ trader' = [trader EXCEPT !.pc = "raised", !.raised = "ConnectionError"]
    /\ pc' = "connection_error"
    /\ UNCHANGED <<config, portfolio_manager, trades, n, i, row, signal_details,
                   in_position, entry_price, stop_loss_price, position_size, entry_time,
                   branch, ledger_updates, entries, signal_calls, report, metrics,
                   data, sentiment, shelf>>

ConnectNext == ConnectSucceed \/ ConnectFail \/ ConnectGiveUp

SpecConnect == ConnectInit /\ [][ConnectNext]_vars

\* the method is sequential code: its next statement is always executed
FairConnect == SpecConnect /\ WF_vars(ConnectNext)

----------------------------------------------------------------------------
\* DataHandler.fetch_ohlcv of data_handler.py with its cache and its rate
\* limit.  One action is one call.  The Trader record holds the DataHandler:
\* cache (per limit, the other parts of the key are fixed by the config),
\* the cache file on disk, last_request_time, and the clock, in hundredths of
\* a second.  It also keeps the arguments and the result of the last call,
\* the time of the last request to the exchange and the time between the
\* last two requests.

MaxCalls == 3

\* rate_limit_delay_seconds = 0.1, in hundredths of a second
RateLimitDelay == 10

\* time.time() when the DataHandler is built
StartTime == 1000

\* the limits fetch_ohlcv is called with: the default and that of fetch_latest_data
Limits == {100, ConfigurationManager.sm_long_window + 20}

\* non-empty valid frames the exchange may answer with
FetchFrames == {"bars_a", "bars_b"}

EmptyFrame == "empty"

\* time that passes between two calls, and that a request to the exchange takes
Advances == {0, 4, 12}

Durations == {0, 5}

\* time.sleep returns after at least the time asked for
Oversleeps == {0, 1}

EmptyCache == [l \in Limits |-> None]

\* _apply_rate_limit without the sleep
ApplyRateLimit_NoSleep(last, now, over) ==
    [slept |-> 0, last_request_time |-> now]

\* _apply_rate_limit called at time now: the time slept and the new
\* last_request_time (the time when it returns)
ApplyRateLimit(last, now, over) ==
    LET elapsed_time == now - last
    IN  IF elapsed_time < RateLimitDelay
        THEN LET sleep_time == RateLimitDelay - elapsed_time
             IN  [slept |-> sleep_time + over,
                  last_request_time |-> now + sleep_time + over]
        ELSE [slept |-> 0, last_request_time |-> now]

FetchInit ==
    /\ pc = "fetch"
    /\ data = << >>
    /\ sentiment = "neutral"
    /\ BacktesterIdle(ConfigurationManager)
    /\ shelf = None
    /\ trader = [pc |-> "ready", cache |-> EmptyCache, disk |-> EmptyCache,
                 last_request_time |-> 0, now |-> StartTime,
                 calls |-> 0, requests |-> 0, request_time |-> None, gap |-> None,
                 slept |-> 0, limit |-> 0, ret |-> "none", branch |-> "none"]

\* a call of fetch_ohlcv(limit) after dt more hundredths of a second
FetchCall(limit, dt) ==
    /\ pc = "fetch"
    /\ trader.calls < MaxCalls
    /\ limit \in Limits
    /\ dt \in Advances

\* the DataHandler after the request the call makes on a cache miss: the rate
\* limit is applied, then the request is sent and takes dur
Requested(limit, dt, over, dur) ==
    LET r == ApplyRateLimit(trader.last_request_time, trader.now + dt, over)
    IN  [trader EXCEPT
            !.calls = @ + 1, !.limit = limit,
            !.requests = @ + 1,
            !.slept = r.slept,
            !.last_request_time = r.last_request_time,
            !.request_time = Some(r.last_request_time),
            !.gap = IF trader.request_time = None THEN None
                    ELSE Some(r.last_request_time - trader.request_time[1]),
            !.now = r.last_request_time + dur]

\* lines 101-103: the key is in the cache
FetchHit ==
    /\ \E limit \in Limits, dt \in Advances :
           /\ FetchCall(limit, dt)
           /\ trader.cache[limit] # None
           /\ trader' = [trader EXCEPT !.calls = @ + 1, !.limit = limit,
                                       !.now = @ + dt, !.slept = 0,
                                       !.ret = trader.cache[limit][1],
                                       !.branch = "hit"]
    /\ UNCHANGED <<pc, config, portfolio_manager, trades, n, i, row, signal_details,
                   in_position, entry_price, stop_loss_price, position_size, entry_time,
                   branch, ledger_updates, entries, signal_calls, report, metrics,
                   data, sentiment, shelf>>

\* lines 106-122: a miss, and the exchange answers with a valid frame, which
\* is stored and saved
FetchStore ==
    /\ \E limit \in Limits, dt \in Advances, over \in Oversleeps, dur \in Durations,
          df \in FetchFrames :
           /\ FetchCall(limit, dt)
           /\ trader.cache[limit] = None
           /\ LET c == [trader.cache EXCEPT ![limit] = Some(df)]
              IN  trader' = [Requested(limit, dt, over, dur) EXCEPT
                                !.cache = c, !.disk = c, !.ret = df, !.branch = "stored"]
    /\ UNCHANGED <<pc, config, portfolio_manager, trades, n, i, row, signal_details,
                   in_position, entry_price, stop_loss_price, position_size, entry_time,
                   branch, ledger_updates, entries, signal_calls, report, metrics,
                   data, sentiment, shelf>>

\* lines 113-115: a miss, and the answer is empty or has no close
FetchEmpty ==
    /\ \E limit \in Limits, dt \in Advances, over \in Oversleeps, dur \in Durations :
           /\ FetchCall(limit, dt)
           /\ trader.cache[limit] = None
           /\ trader' = [Requested(limit, dt, over, dur) EXCEPT
                            !.ret = EmptyFrame, !.branch = "empty"]
    /\ UNCHANGED <<pc, config, portfolio_manager, trades, n, i, row, signal_details,
                   in_position, entry_price, stop_loss_price, position_size, entry_time,
                   branch, ledger_updates, entries, signal_calls, report, metrics,
                   data, sentiment, shelf>>

\* lines 110 and 124-126: a miss, and the request raises
FetchRaises ==
    /\ \E limit \in Limits, dt \in Advances, over \in Oversleeps, dur \in Durations :
           /\ FetchCall(limit, dt)
           /\ trader.cache[limit] = None
           /\ trader' = [Requested(limit, dt, over, dur) EXCEPT
                            !.ret = EmptyFrame, !.branch = "request_raised"]
    /\ UNCHANGED <<pc, config, portfolio_manager, trades, n, i, row, signal_details,
                   in_position, entry_price, stop_loss_price, position_size, entry_time,
                   branch, ledger_updates, entries, signal_calls, report, metrics,
                   data, sentiment, shelf>>

\* lines 118-120 and 124-126: a miss, a valid frame is put into self.cache
\* and _save_cache raises (open or pickle.dump fails): the except clause
\* returns an empty frame.  The file is as before when open failed, and
\* emptied when it was opened for writing.
FetchSaveRaises ==
    /\ \E limit \in Limits, dt \in Advances, over \in Oversleeps, dur \in Durations,
          df \in FetchFrames, file \in {trader.disk, EmptyCache} :
           /\ FetchCall(limit, dt)
           /\ trader.cache[limit] = None
           /\ trader' = [Requested(limit, dt, over, dur) EXCEPT
                            !.cache = [trader.cache EXCEPT ![limit] = Some(df)],
                            !.disk = file,
                            !.ret = EmptyFrame, !.branch = "save_raised"]
    /\ UNCHANGED <<pc, config, portfolio_manager, trades, n, i, row, signal_details,
                   in_position, entry_price, stop_loss_price, position_size, entry_time,
                   branch, ledger_updates, entries, signal_calls, report, metrics,
                   data, sentiment, shelf>>

FetchNext == FetchHit \/ FetchStore \/ FetchEmpty \/ FetchRaises \/ FetchSaveRaises

SpecFetch == FetchInit /\ [][FetchNext]_vars

----------------------------------------------------------------------------
\* The three calculate_position_size of portfolio_manager.py,
\* execution_handler.py and strategy_engine.py, called with the same
\* arguments.  Each is evaluated twice: in exact arithmetic, and in binary
\* floating point, where every operation rounds its result to the nearest
\* float (ties to even).  The floats of the model have a significand of
\* FloatBits bits (Python's have 53) and an unbounded exponent.

FloatBits == 6

RECURSIVE Pow2(_)
Pow2(k) == IF k = 0 THEN 1 ELSE 2 * Pow2(k - 1)

\* the integer nearest to num / den, ties to the even one
NearestEven(num, den) ==
    LET q == num \div den
        r == num % den
    IN  IF 2 * r > den \/ (2 * r = den /\ q % 2 = 1) THEN q + 1 ELSE q

\* the float nearest to num / den > 0: the quotient is scaled by a power of
\* two into [2^(FloatBits-1), 2^FloatBits), rounded there and scaled back
RECURSIVE FlPos(_, _)
FlPos(num, den) ==
    IF num >= Pow2(FloatBits) * den
    THEN RMul(R(2), FlPos(num, 2 * den))
    ELSE IF num < Pow2(FloatBits - 1) * den
    THEN RDiv(FlPos(2 * num, den), R(2))
    ELSE R(NearestEven(num, den))

\* the float nearest to the rational x
Fl(x) ==
    IF x.n = 0 THEN Zero
    ELSE IF x.n < 0 THEN RNeg(FlPos(0 - x.n, x.d))
    ELSE FlPos(x.n, x.d)

\* the result of an operation whose exact value is x: rounded when the
\* arithmetic is floating point (fl), x itself when it is exact
Ar(x, fl) == IF fl THEN Fl(x) ELSE x

\* calculate_position_size of portfolio_manager.py without the final
\* division by current_price
PortfolioManagerPySize_InUsd(balance, pct, current_price, stop_loss, fl) ==
    LET risk_per_trade_decimal == Ar(RDiv(pct, R(100)), fl)
        capital_to_risk        == Ar(RMul(balance, risk_per_trade_decimal), fl)
        stop_loss_distance     == Ar(RAdd(current_price, RNeg(stop_loss)), fl)
    IN  IF stop_loss_distance.n <= 0 THEN Zero
        ELSE Ar(RDiv(capital_to_risk,
                     Ar(RDiv(stop_loss_distance, current_price), fl)), fl)

\* calculate_position_size of portfolio_manager.py
PortfolioManagerPySize(balance, pct, current_price, stop_loss, fl) ==
    LET risk_per_trade_decimal == Ar(RDiv(pct, R(100)), fl)
        capital_to_risk        == Ar(RMul(balance, risk_per_trade_decimal), fl)
        stop_loss_distance     == Ar(RAdd(current_price, RNeg(stop_loss)), fl)
    IN  IF stop_loss_distance.n <= 0 THEN Zero
        ELSE LET position_size_usd ==
                     Ar(RDiv(capital_to_risk,
                             Ar(RDiv(stop_loss_distance, current_price), fl)), fl)
             IN  Ar(RDiv(position_size_usd, current_price), fl)

\* calculate_position_size of execution_handler.py
ExecutionHandlerPySize(balance, pct, entry, stop_loss, fl) ==
    IF ~RLt(stop_loss, entry) THEN Zero
    ELSE LET risk_amount_dollars   == Ar(RMul(balance, Ar(RDiv(pct, R(100)), fl)), fl)
             risk_per_coin_dollars == Ar(RAdd(entry, RNeg(stop_loss)), fl)
         IN  IF risk_per_coin_dollars.n <= 0 THEN Zero
             ELSE Ar(RDiv(risk_amount_dollars, risk_per_coin_dollars), fl)

\* calculate_position_size of strategy_engine.py
StrategyEnginePySize(balance, pct, entry, stop_loss, fl) ==
    LET risk_amount_dollars   == Ar(RMul(balance, Ar(RDiv(pct, R(100)), fl)), fl)
        risk_per_coin_dollars == Ar(RAdd(entry, RNeg(stop_loss)), fl)
    IN  IF risk_per_coin_dollars.n <= 0 THEN Zero
        ELSE Ar(RDiv(risk_amount_dollars, risk_per_coin_dollars), fl)

\* arguments that are floats of the model, for FloatBits and above
SizersBalances == {R(80), R(96), R(100)}

SizersPercents == {R(1), R(2), R(50)}

SizersEntries == {R(96), R(100), R(104)}

SizersStops == {R(88), R(92), R(96), R(100), R(104)}

\* the sizes the three variants return for the arguments held by t
SizesOf(t, fl) ==
    [pm |-> PortfolioManagerPySize(t.balance, t.pct, t.entry, t.stop_loss, fl),
     eh |-> ExecutionHandlerPySize(t.balance, t.pct, t.entry, t.stop_loss, fl),
     se |-> StrategyEnginePySize(t.balance, t.pct, t.entry, t.stop_loss, fl)]

SizersInit ==
    /\ pc = "sizers"
    /\ data = << >>
    /\ sentiment = "neutral"
    /\ BacktesterIdle(ConfigurationManager)
    /\ shelf = None
    /\ \E b \in SizersBalances, pct \in SizersPercents, e \in SizersEntries,
          sl \in SizersStops :
           trader = [pc |-> "sizers", balance |-> b, pct |-> pct, entry |-> e,
                     stop_loss |-> sl, exact |-> None, float |-> None]

SizersCall ==
    /\ pc = "sizers"
    /\ trader' = [trader EXCEPT !.pc = "sized",
                                !.exact = Some(SizesOf(trader, FALSE)),
                                !.float = Some(SizesOf(trader, TRUE))]
    /\ pc' = "sizers_done"
    /\ UNCHANGED <<config, portfolio_manager, trades, n, i, row, signal_details,
                   in_position, entry_price, stop_loss_price, position_size, entry_time,
                   branch, ledger_updates, entries, signal_calls, report, metrics,
                   data, sentiment, shelf>>

SizersNext == SizersCall

SpecSizers == SizersInit /\ [][SizersNext]_vars

----------------------------------------------------------------------------
\* SentimentAnalyzer.__init__ of sentiment.py, the orchestrator.  Line 17
\* builds self.sentiment_analyzer by calling SentimentAnalyzer() again, so
\* the constructor calls itself before it reaches lines 18-28.  The Trader
\* record holds the stack of __init__ frames (depth), the line the innermost
\* frame is at, the DataHandlers built so far and the exception that left the
\* outermost constructor.  No call of line 17 returns, since each waits for
\* the next; lines 18-28 therefore have no action.  MaxDepth stands for the
\* interpreter's recursion limit.

MaxDepth == 12

OrchestratorInit ==
    /\ pc = "orchestrator"
    /\ data = << >>
    /\ sentiment = "neutral"
    /\ BacktesterIdle(ConfigurationManager)
    /\ shelf = None
    /\ \E rb \in BOOLEAN :
           trader = [pc |-> "init", run_backtest |-> rb, depth |-> 1, line |-> 15,
                     data_handlers |-> 0, raised |-> "none"]

\* line 15: ConfigurationManager() returns, or raises ValueError when the API
\* key or secret is not set (config.py 20-21)
OrchestratorConfig ==
    /\ pc = "orchestrator"
    /\ trader.pc = "init"
    /\ trader.line = 15
    /\ \/ trader' = [trader EXCEPT !.line = 16]
       \/ trader' = [trader EXCEPT !.pc = "raised", !.raised = "ValueError"]
    /\ UNCHANGED <<pc, config, portfolio_manager, trades, n, i, row, signal_details,
                   in_position, entry_price, stop_loss_price, position_size, entry_time,
                   branch, ledger_updates, entries, signal_calls, report, metrics,
                   data, sentiment, shelf>>

\* line 16: DataHandler(self.config) connects to the exchange and returns,
\* or raises ConnectionError (data_handler.py 90)
OrchestratorDataHandler ==
    /\ pc = "orchestrator"
    /\ trader.pc = "init"
    /\ trader.line = 16
    /\ \/ trader' = [trader EXCEPT !.line = 17, !.data_handlers = @ + 1]
       \/ trader' = [trader EXCEPT !.pc = "raised", !.raised = "ConnectionError"]
    /\ UNCHANGED <<pc, config, portfolio_manager, trades, n, i, row, signal_details,
                   in_position, entry_price, stop_loss_price, position_size, entry_time,
                   branch, ledger_updates, entries, signal_calls, report, metrics,
                   data, sentiment, shelf>>

\* line 17: SentimentAnalyzer() is called with run_backtest=False: a new
\* __init__ frame starts at line 15, or the recursion limit is hit and
\* RecursionError leaves every frame
OrchestratorNested ==
    /\ pc = "orchestrator"
    /\ trader.pc = "init"
    /\ trader.line = 17
    /\ trader' = IF trader.depth < MaxDepth
                 THEN [trader EXCEPT !.depth = @ + 1, !.line = 15]
                 ELSE [trader EXCEPT !.pc = "raised", !.raised = "RecursionError"]
    /\ UNCHANGED <<pc, config, portfolio_manager, trades, n, i, row, signal_details,
                   in_position, entry_price, stop_loss_price, position_size, entry_time,
                   branch, ledger_updates, entries, signal_calls, report, metrics,
                   data, sentiment, shelf>>

OrchestratorNext == OrchestratorConfig \/ OrchestratorDataHandler \/ OrchestratorNested

SpecOrchestrator == OrchestratorInit /\ [][OrchestratorNext]_vars

\* the constructor is sequential code: its next statement is always executed
FairOrchestrator == SpecOrchestrator /\ WF_vars(OrchestratorNext)

TypeOK ==
    /\ pc \in {"start", "loop", "done", "aborted", "sizer", "sized", "signal", "signalled", "trader", "main", "report", "reported", "ledger", "ledgered", "order", "ordered", "connect", "connected", "connection_error", "fetch", "sizers", "sizers_done", "orchestrator"}
    /\ i \in 0..n
    /\ in_position \in BOOLEAN
    /\ portfolio_manager.balance.d > 0

----------------------------------------------------------------------------
\* Helpers of the properties

RECURSIVE SumPnl(_)
SumPnl(log) ==
    IF log = << >> THEN Zero
    ELSE RAdd(SumPnl(SubSeq(log, 1, Len(log) - 1)), log[Len(log)].pnl)

\* this step of the loop consumed a row
BarStep == pc = "loop" /\ i' = i + 1

\* p is the product (ex - en) * size, stated without the model's arithmetic
IsPnlOf(p, ex, en, size) == p.n * size.d = (ex - en) * size.n * p.d

\* the last trade of the log after the step is new and closes the position
\* held before the step at the close of the step's row
ClosedAtClose ==
    /\ Len(trades') = Len(trades) + 1
    /\ SubSeq(trades', 1, Len(trades)) = trades
    /\ LET t == trades'[Len(trades')]
       IN  /\ t.entry_date = entry_time
           /\ t.exit_date = row'.timestamp
           /\ IsPnlOf(t.pnl, row'.close, entry_price, position_size)

\* the size the sizer returns for the row and decision of this step
StepSize ==
    CalculatePositionSize(portfolio_manager, config, row'.close,
                          signal_details'.stop_loss[1]).ret

\* the three transitions of the position state machine, from the step's inputs
StopTriggered == in_position /\ row'.close <= stop_loss_price[1]

EntryTaken ==
    /\ ~in_position
    /\ signal_details'.signal = "buy"
    /\ Truthy(signal_details'.stop_loss)
    /\ RPos(StepSize)

SignalExit ==
    /\ in_position
    /\ row'.close > stop_loss_price[1]
    /\ signal_details'.signal = "sell"

----------------------------------------------------------------------------
\* C1: after any sequence of bars, balance = initial_balance + the sum of the
\* pnl of all recorded trades, and realized_pnl is that same sum.
C1_BalanceIsInitialPlusPnl ==
    pc \in {"start", "loop", "done", "aborted"} =>
        /\ portfolio_manager.balance =
               RAdd(portfolio_manager.initial_balance, SumPnl(trades))
        /\ portfolio_manager.realized_pnl = SumPnl(trades)
        /\ portfolio_manager.initial_balance = R(CapitalBase)

C1_Witness ==
    /\ pc = "done"
    /\ Len(trades) = 2
    /\ trades[1].pnl.n < 0
    /\ trades[2].pnl.n > 0
    /\ portfolio_manager.balance # portfolio_manager.initial_balance

\* C2: at most one position is open after every bar: entries so far minus
\* recorded trades so far is 0 when flat and 1 when long.
C2_AtMostOnePosition ==
    pc \in {"start", "loop", "done", "aborted"} =>
        /\ entries - Len(trades) \in {0, 1}
        /\ in_position <=> entries - Len(trades) = 1

\* a stop-loss exit on one bar and a new entry on the next
C2_Witness ==
    /\ branch = "enter"
    /\ in_position
    /\ entries = 2
    /\ Len(trades) = 1
    /\ trades[1].exit_date = row.timestamp - 1
    /\ trades[1].pnl.n < 0

\* C3: on a bar where a position is open and close <= stop_loss_price the
\* position is closed at that close, the signal is not evaluated and nothing
\* is entered: the state after the bar is FLAT.
C3_StopLossPriority ==
    [][ (BarStep /\ StopTriggered) =>
            /\ ~in_position'
            /\ ClosedAtClose
            /\ signal_calls' = signal_calls
            /\ signal_details' = signal_details
            /\ entries' = entries ]_vars

\* a stop-loss exit at a close equal to the stop price
C3_Witness ==
    /\ branch = "stop_loss"
    /\ ~in_position
    /\ row.close = stop_loss_price[1]
    /\ Len(trades) = 1

\* C4: ledger updates, trade-log appends and LONG-to-FLAT transitions go
\* together: each such transition makes exactly one update and one append,
\* no other step makes either, and the two counts are always equal.
C4_OneLedgerUpdatePerExit ==
    /\ [](ledger_updates = Len(trades))
    /\ [][ IF in_position /\ ~in_position'
           THEN /\ ledger_updates' = ledger_updates + 1
                /\ Len(trades') = Len(trades) + 1
           ELSE /\ ledger_updates' = ledger_updates
                /\ trades' = trades ]_vars

C4_Witness ==
    /\ ledger_updates = 2
    /\ Len(trades) = 2
    /\ ~in_position
    /\ branch = "stop_loss"

\* C5: flat, buy with a stop-loss and a sizer result > 0: the state becomes
\* LONG with entry_price = close, entry_time = timestamp, stop_loss_price =
\* the decision's stop_loss and size = the sizer's result.
C5_EntryCreatesPosition ==
    [][ (BarStep /\ EntryTaken) =>
            /\ in_position'
            /\ entry_price' = row'.close
            /\ entry_time' = Some(row'.timestamp)
            /\ stop_loss_price' = signal_details'.stop_loss
            /\ position_size' = StepSize ]_vars

\* a second entry, sized from a balance that a closed trade has changed
C5_Witness ==
    /\ branch = "enter"
    /\ in_position
    /\ entries = 2
    /\ entry_price = row.close
    /\ entry_time = Some(row.timestamp)
    /\ portfolio_manager.balance # portfolio_manager.initial_balance

\* C6: long, close above the stop price and signal sell: the position is
\* closed at that close: FLAT, and one trade with pnl = (close - entry_price)
\* * size, the position's entry time and this bar's timestamp is recorded.
C6_SellClosesAtClose ==
    [][ (BarStep /\ SignalExit) =>
            /\ ~in_position'
            /\ ClosedAtClose
            /\ ledger_updates' = ledger_updates + 1 ]_vars

C6_Witness ==
    /\ branch = "sell"
    /\ ~in_position
    /\ Len(trades) = 1
    /\ trades[1].pnl.n > 0
    /\ trades[1].exit_date = row.timestamp

\* C7: every bar that is none of stop-loss exit, FLAT+buy with size > 0, or
\* LONG+sell changes nothing: state, balance, realized_pnl, trade log and,
\* when LONG, the open position's fields are unchanged.
C7_OtherBarsChangeNothing ==
    [][ (BarStep /\ ~StopTriggered /\ ~EntryTaken /\ ~SignalExit) =>
            /\ in_position' = in_position
            /\ portfolio_manager'.balance = portfolio_manager.balance
            /\ portfolio_manager'.realized_pnl = portfolio_manager.realized_pnl
            /\ trades' = trades
            /\ in_position =>
                   /\ entry_price' = entry_price
                   /\ entry_time' = entry_time
                   /\ stop_loss_price' = stop_loss_price
                   /\ position_size' = position_size ]_vars

\* a buy decision with a stop-loss arriving while LONG
C7_Witness ==
    /\ branch = "no_transition"
    /\ in_position
    /\ signal_details.signal = "buy"
    /\ Truthy(signal_details.stop_loss)
    /\ entry_time # Some(row.timestamp)

\* C8: the balance changes only inside update_balance_after_trade: a step
\* that closes no position leaves balance and realized_pnl unchanged, and so
\* does every step that sizes or opens a position.
C8_BalanceOnlyChangedByLedger ==
    [][ /\ (ledger_updates' = ledger_updates \/ ~(in_position /\ ~in_position')) =>
               /\ portfolio_manager'.balance = portfolio_manager.balance
               /\ portfolio_manager'.realized_pnl = portfolio_manager.realized_pnl
        /\ (BarStep /\ ~in_position /\ signal_details'.signal = "buy"
                /\ signal_calls' = signal_calls + 1) =>
               portfolio_manager'.balance = portfolio_manager.balance ]_vars

\* a position sized and opened after a closed trade moved the balance to 106
C8_Witness ==
    /\ branch = "enter"
    /\ in_position
    /\ Len(trades) = 1
    /\ portfolio_manager.last_position_size = position_size
    /\ portfolio_manager.balance = R(106)

\* C9: calculate_position_size returns 0 when entry_price - stop_loss_price
\* <= 0 and balance * (risk_per_trade_percent / 100) / (entry_price -
\* stop_loss_price) otherwise; entry 100, stop 95, balance 1000, 2 percent
\* give 4.
C9_SizerFormula ==
    pc = "sized" =>
        LET e   == entry_price
            s   == stop_loss_price[1]
            b   == portfolio_manager.balance
            pct == config.risk_per_trade_percent
        IN  /\ e - s <= 0 => position_size = Zero
            /\ e - s > 0 =>
                   position_size.n * b.d * 100 * (e - s) = b.n * pct * position_size.d
            /\ (e = 100 /\ s = 95 /\ b = R(1000) /\ pct = 2) => position_size = R(4)

C9_Witness ==
    /\ pc = "sized"
    /\ entry_price = 100
    /\ stop_loss_price = Some(95)
    /\ portfolio_manager.balance = R(1000)
    /\ config.risk_per_trade_percent = 2
    /\ position_size = R(4)

\* C10: for every balance reachable during a backtest and every entry and
\* stop-loss price, calculate_position_size returns a size >= 0.
C10_SizeNeverNegative ==
    pc \in {"start", "loop", "done", "aborted"} => position_size.n >= 0

----------------------------------------------------------------------------
\* the risk amount of the balance b: loss <= b * pct / 100, for a pnl p
LossWithinRisk(p, b, pct) == (0 - p.n) * b.d * 100 <= b.n * pct * p.d

\* the balance is the same from the entry of a position to the step before
\* its exit, so the balance before an exit is the balance held at the entry
BalanceHeldWhileLong ==
    (BarStep /\ in_position') =>
        portfolio_manager'.balance = portfolio_manager.balance

\* this step records a trade
RecordsTrade == BarStep /\ Len(trades') = Len(trades) + 1

\* C11: a buy while FLAT with a stop_loss not strictly below the close: the
\* sizer returns 0, no position is opened, the state stays FLAT and balance
\* and trade log are unchanged.
C11_InvalidStopOpensNothing ==
    [][ (BarStep /\ ~in_position /\ signal_details'.signal = "buy"
             /\ signal_details'.stop_loss # None
             /\ signal_details'.stop_loss[1] >= row'.close) =>
            /\ StepSize = Zero
            /\ position_size' = Zero
            /\ ~in_position'
            /\ entries' = entries
            /\ portfolio_manager'.balance = portfolio_manager.balance
            /\ trades' = trades ]_vars

\* entry 100 with stop_loss 100
C11_Witness ==
    /\ branch = "size_rejected"
    /\ row.close = 100
    /\ signal_details = [signal |-> "buy", stop_loss |-> Some(100)]
    /\ position_size = Zero
    /\ ~in_position

\* C12: a buy decision whose stop_loss is missing, zero or negative is
\* discarded and treated as hold: no position is opened on that bar.
C12_NonPositiveStopDiscarded ==
    [][ (BarStep /\ ~in_position /\ signal_details'.signal = "buy"
             /\ (signal_details'.stop_loss = None \/ signal_details'.stop_loss[1] <= 0)) =>
            /\ ~in_position'
            /\ entries' = entries ]_vars

C14_TradesInExitOrder ==
    /\ [](\A k \in 1..(Len(trades) - 1) : trades[k].exit_date < trades[k + 1].exit_date)
    /\ [][ \/ trades' = trades
           \/ /\ Len(trades') = Len(trades) + 1
              /\ SubSeq(trades', 1, Len(trades)) = trades
              /\ trades'[Len(trades')].exit_date = row'.timestamp ]_vars

C14_Witness ==
    /\ Len(trades) = 2
    /\ trades[1].exit_date = 2
    /\ trades[2].exit_date = 4
    /\ branch = "sell"

\* C15: at the end of the bars a position that is still open is reported as
\* an unrealized open position, and is not closed.
C15_OpenPositionReported ==
    (pc = "done" /\ in_position) =>
        /\ "Unrealized P&L" \in ReportLines(report)
        /\ entries - Len(trades) = 1

\* C16: an empty bar sequence aborts the run before the loop: no signal, no
\* trade, no report, and the balance stays initial_balance.
C16_EmptyDataAborts ==
    /\ [][ (pc = "start" /\ pc' # "start" /\ n' = 0) =>
               (pc' = "aborted" /\ report' = "none") ]_vars
    /\ [](pc = "aborted" =>
              /\ signal_calls = 0
              /\ i = 0
              /\ trades = << >>
              /\ ledger_updates = 0
              /\ portfolio_manager.balance = R(config.capital_base)
              /\ portfolio_manager.balance = portfolio_manager.initial_balance)

C16_Witness ==
    /\ pc = "aborted"
    /\ n = 0
    /\ report = "none"

\* C17: a non-empty bar sequence shorter than the longest indicator window
\* aborts the run: the loop is not entered and no report is produced.
C17_InsufficientBarsAbort ==
    (n >= 1 /\ n < config.sm_long_window) => pc \notin {"loop", "done"}
\* the short SMA minus the long SMA of a row whose SMAs are both defined
Spread(r) == RAdd(r.short_sma[1], [n |-> 0 - r.long_sma[1].n, d |-> r.long_sma[1].d])
Defined(r) == r.short_sma # None /\ r.long_sma # None
BullishCrossover(df) ==
    /\ Defined(df[Len(df) - 1]) /\ Defined(df[Len(df)])
    /\ Spread(df[Len(df) - 1]).n <= 0
    /\ Spread(df[Len(df)]).n > 0
BearishCrossover(df) ==
    /\ Defined(df[Len(df) - 1]) /\ Defined(df[Len(df)])
    /\ Spread(df[Len(df) - 1]).n >= 0
    /\ Spread(df[Len(df)]).n < 0

\* C19: generate_signal returns buy exactly on a bullish crossover with a
\* sentiment that is not negative, hold on a bullish crossover with negative
\* sentiment, sell exactly on a bearish crossover whatever the sentiment, and
\* hold in every other case.
C19_CrossoverRule ==
    (pc = "signalled" /\ Len(data) >= 2) =>
        LET signal == signal_details.signal
        IN  /\ signal \in {"buy", "sell", "hold"}
            /\ signal = "buy" <=> (BullishCrossover(data) /\ sentiment # "negative")
            /\ (BullishCrossover(data) /\ sentiment = "negative") => signal = "hold"
            /\ signal = "sell" <=> BearishCrossover(data)
            /\ (~BullishCrossover(data) /\ ~BearishCrossover(data)) => signal = "hold"
            /\ BearishCrossover(data) =>
                   \A sent \in Sentiments : SentimentMomentumSignal(data, sent) = "sell"

\* a buy on SMAs that were equal on the previous row
C19_Witness ==
    /\ pc = "signalled"
    /\ Len(data) = 2
    /\ data[1].short_sma = Some(R(100)) /\ data[1].long_sma = Some(R(100))
    /\ data[2].short_sma = Some([n |-> 201, d |-> 2]) /\ data[2].long_sma = Some(R(100))
    /\ sentiment = "positive"
    /\ signal_details.signal = "buy"
\* the row of the frame that holds the scenario's bar of index k
ScenarioRow(k) == Len(data) - Len(ScenarioCloses) + k + 1

\* C20: for closes 100, 101, 99, 98, 97, 96 with windows 2 and 3, the SMAs
\* are equal at index 2, index 3 is the first bar with the short SMA below
\* the long SMA, the decision there is sell for every sentiment, and a
\* position open on that bar is closed at that bar's close.
C20_ScenarioSell ==
    /\ [](LET df == AddIndicators(Frame(ScenarioCloses), ScenarioConfig)
          IN  /\ \A k \in 1..3 : ~(Defined(df[k]) /\ Spread(df[k]).n < 0)
              /\ Defined(df[3]) /\ Spread(df[3]).n = 0
              /\ Defined(df[4]) /\ Spread(df[4]).n < 0
              /\ \A sent \in Sentiments :
                     SentimentMomentumSignal(SubSeq(df, 1, 4), sent) = "sell")
    /\ [](pc = "loop" =>
              \A sent \in Sentiments :
                  StrategyEngineSignal(SubSeq(data, 1, ScenarioRow(3)), sent) = "sell")
    /\ [][ (BarStep /\ i' = ScenarioRow(3)) =>
               /\ row'.close = 98
               /\ signal_calls' # signal_calls => signal_details'.signal = "sell"
               /\ in_position => (~in_position' /\ ClosedAtClose) ]_vars

\* bought at 101 on the bullish crossover two bars earlier, sold at 98
C20_Witness ==
    /\ pc = "loop"
    /\ i = ScenarioRow(3)
    /\ branch = "sell"
    /\ row.close = 98
    /\ Len(trades) = 1
    /\ IsPnlOf(trades[1].pnl, 98, 101, position_size)
    /\ ~in_position
\* C18: with an unrecognized strategy name Trader.run stops at the ValueError:
\* it makes no further pass of its loop, and no order is executed.
C18_UnrecognizedStrategyStops ==
    [][ (~Recognized(config) /\ trader.errors >= 1) =>
            (trader'.fetches = trader.fetches /\ trader'.orders = 0) ]_vars
\* C21: for a bar whose SMAs are undefined, whose preceding bar's SMAs are
\* undefined, or that has no preceding bar, the decision is hold and no error
\* is raised.
C21_WarmUpHolds ==
    (/\ pc = "signalled"
     /\ Len(data) >= 1
     /\ \/ Len(data) = 1
        \/ ~Defined(data[Len(data)])
        \/ ~Defined(data[Len(data) - 1])) =>
        signal_details.signal = "hold"
\* C22: the stop-loss price attached to a buy is low[t] - ATR[t] *
\* atr_multiplier, from the low of the bar on which the buy is decided.
C22_StopLossFromLow ==
    [][ (pc = "main" /\ trader'.fetches # trader.fetches
             /\ trader'.branch \in {"enter", "size_rejected"}) =>
            trader'.stop_loss_price =
                Some(MainStopLoss_FromLow(trader'.candle, config)) ]_vars
\* C30: in every driver an open position is force-closed on a bar whose
\* close is less than or equal to the stop-loss price, equality included:
\* Backtester.run and the two Trader.run loops.
C30_ForcedExitAtOrBelowStop ==
    /\ [][ (BarStep /\ in_position /\ row'.close <= stop_loss_price[1]) =>
               (~in_position' /\ branch' = "stop_loss") ]_vars
    /\ [][ (/\ pc \in {"trader", "main"}
            /\ trader'.fetches # trader.fetches
            /\ trader'.branch # "empty"
            /\ trader.in_position
            /\ IF pc = "trader"
               THEN trader'.close <= trader.stop_loss_price[1]
               ELSE ~RLt(trader.stop_loss_price[1], R(trader'.candle.close))) =>
               ~trader'.in_position ]_vars
\* the number of trades of a log whose pnl is positive, negative
NumWins(log) == Cardinality({k \in 1..Len(log) : log[k].pnl.n > 0})
NumLosses(log) == Cardinality({k \in 1..Len(log) : log[k].pnl.n < 0})

\* C23: a trade closed at its entry price has pnl = 0 and leaves balance and
\* realized_pnl unchanged; the report counts it in num_trades but in neither
\* wins nor losses, win_rate = 100 * |wins| / num_trades and |wins| +
\* |losses| <= num_trades.
C23_BreakEvenTrade ==
    /\ [][ (RecordsTrade /\ row'.close = entry_price) =>
               /\ trades'[Len(trades')].pnl = Zero
               /\ portfolio_manager'.balance = portfolio_manager.balance
               /\ portfolio_manager'.realized_pnl = portfolio_manager.realized_pnl ]_vars
    /\ []((pc = "done" /\ report = "metrics") =>
              LET m == metrics[1]
              IN  /\ m.num_trades = Len(trades)
                  /\ Len(m.wins) = NumWins(trades)
                  /\ Len(m.losses) = NumLosses(trades)
                  /\ \A k \in 1..Len(trades) :
                         trades[k].pnl = Zero =>
                             /\ \A w \in 1..Len(m.wins) : m.wins[w] # trades[k].pnl
                             /\ \A l \in 1..Len(m.losses) : m.losses[l] # trades[k].pnl
                  /\ m.win_rate.n * m.num_trades = 100 * Len(m.wins) * m.win_rate.d
                  /\ Len(m.wins) + Len(m.losses) <= m.num_trades)

\* two trades reported, one at break-even and one win: win rate 50
C23_Witness ==
    /\ pc = "done"
    /\ report = "metrics"
    /\ Len(trades) = 2
    /\ trades[1].pnl = Zero
    /\ trades[2].pnl.n > 0
    /\ metrics[1].win_rate = R(50)
    /\ Len(metrics[1].wins) + Len(metrics[1].losses) = 1

\* C24: _generate_report never divides by zero: reward_risk_ratio is the
\* infinity sentinel exactly when the log has no trade with pnl < 0, and
\* |avg_win / avg_loss| otherwise, with avg_win = 0 when there are no wins.
C24_RatioNeverDividesByZero ==
    /\ (pc = "reported" /\ trades = << >>) => metrics = None
    /\ (pc = "reported" /\ trades # << >>) =>
        LET m == metrics[1]
        IN  /\ report = "metrics"
            /\ m.reward_risk_ratio.kind \in {"inf", "value"}
            /\ m.reward_risk_ratio.kind = "inf" <=> NumLosses(trades) = 0
            /\ NumWins(trades) = 0 => m.avg_win = Zero
            /\ m.reward_risk_ratio.kind = "value" =>
                   /\ m.avg_loss.n < 0
                   /\ m.reward_risk_ratio.val.n >= 0
                   /\ m.reward_risk_ratio.val.n * m.avg_win.d * Abs(m.avg_loss.n)
                        = Abs(m.avg_win.n) * m.avg_loss.d * m.reward_risk_ratio.val.d

\* wins = [10, 10], losses = []
C24_Witness ==
    /\ pc = "reported"
    /\ Len(trades) = 2
    /\ trades[1].pnl = R(10) /\ trades[2].pnl = R(10)
    /\ metrics[1].reward_risk_ratio.kind = "inf"
    /\ metrics[1].avg_win = R(10)

\* C25: with an empty trade log at the end of a run the report states that
\* no trades were executed and computes nothing; this is so whenever no
\* position was ever closed, and the report never fails.
C25_EmptyLogReport ==
    pc = "done" =>
        /\ report \in {"no_trades", "metrics"}
        /\ trades = << >> <=> ledger_updates = 0
        /\ trades = << >> =>
               /\ report = "no_trades"
               /\ metrics = None
               /\ ReportLines(report) = {"No trades were executed during the backtest period."}
        /\ trades # << >> => (report = "metrics" /\ metrics # None)

\* a position was opened and never closed
C25_Witness ==
    /\ pc = "done"
    /\ trades = << >>
    /\ entries = 1
    /\ in_position
    /\ report = "no_trades"
    /\ metrics = None
\* C26: for a non-empty bar sequence Backtester.run visits every bar exactly
\* once in sequence order, terminates, and generates the report exactly once,
\* after the last bar.
C26_EachBarOnceThenReport ==
    /\ [][ (pc = "loop" /\ pc' = "loop") =>
               (i' = i + 1 /\ row'.timestamp = i' /\ i' <= n) ]_vars
    /\ [][ (report' # report \/ pc' = "done") =>
               (pc = "loop" /\ pc' = "done" /\ i = n /\ i' = n
                    /\ report = "none" /\ report' # "none") ]_vars
    /\ [](pc = "done" => (i = n /\ row.timestamp = n))
    /\ (pc = "loop" ~> pc = "done")

\* the six closes after three earlier ones, walked to the end
C26_Witness ==
    /\ pc = "done"
    /\ n = 9
    /\ i = 9
    /\ row.timestamp = 9
    /\ report = "metrics"

\* C29: a ledger method that closes a position, called while no position is
\* open, does not return normally and leaves the balance as it was.
C29_ClosingWithoutPositionIsFatal ==
    [][ (pc = "ledger" /\ pc' = "ledgered" /\ ~in_position) =>
            (branch' # "returned" /\ portfolio_manager' = portfolio_manager) ]_vars

\* the bar of row r as it was fetched, without the indicator columns
RawBar(r) == [close |-> r.close, timestamp |-> r.timestamp, stop_loss |-> r.stop_loss]

\* the number of leading bars on which the frames d1 and d2 agree
CommonBars(d1, d2) ==
    LET m == IF Len(d1) <= Len(d2) THEN Len(d1) ELSE Len(d2)
    IN  CHOOSE t \in 0..m :
            /\ \A k \in 1..t : RawBar(d1[k]) = RawBar(d2[k])
            /\ t = m \/ RawBar(d1[t + 1]) # RawBar(d2[t + 1])

\* what a run has reached, without the frame it was given
Reached(run) == [run EXCEPT !.data = << >>]

\* a step of the running Backtester, as opposed to a switch
OwnBarStep == BarStep /\ shelf' = shelf

\* C27: the decision at bar t depends only on bars 0..t.  Two runs whose
\* frames agree on the first t bars are in the same state after bar t,
\* whatever the later bars are; and each bar step reads its own row, gives
\* the generator the rows up to that row, and tests the stop-loss and fills
\* at that row's close.
C27_NoLookahead ==
    /\ []((/\ shelf # None
           /\ pc = "loop"
           /\ shelf[1].pc = "loop"
           /\ i = shelf[1].i
           /\ i <= CommonBars(data, shelf[1].data)) =>
              Reached(ThisRun) = Reached(shelf[1]))
    /\ [][ OwnBarStep =>
             /\ row' = [close |-> data[i'].close, timestamp |-> i']
             /\ signal_calls' # signal_calls =>
                    signal_details'.signal =
                        StrategyEngineSignal(SubSeq(data, 1, i'), sentiment)
             /\ StopTriggered <=> branch' = "stop_loss"
             /\ Len(trades') # Len(trades) => ClosedAtClose
             /\ entries' # entries => entry_price' = row'.close ]_vars

\* both runs have consumed the bars they share and hold a position bought on
\* them, and their frames differ in a later bar
C27_Witness ==
    /\ shelf # None
    /\ pc = "loop"
    /\ shelf[1].pc = "loop"
    /\ i = shelf[1].i
    /\ i = CommonBars(data, shelf[1].data)
    /\ i < Len(data)
    /\ in_position
    /\ shelf[1].in_position
    /\ entries = 1

\* the two Backtesters were given the same bars and the same configuration
SameInputs ==
    /\ shelf # None
    /\ config = shelf[1].config
    /\ CommonBars(data, shelf[1].data) = Len(data)
    /\ Len(data) = Len(shelf[1].data)

TraderPass == pc = "trader" /\ trader'.fetches # trader.fetches

\* C31: Trader.run changes its state only after an order that succeeded.  A
\* position is opened or closed, and the balance changes, only in a pass
\* whose execute_order returned True; a pass whose order failed leaves
\* in_position, entry_price and the balance as they were, so a position whose
\* sell failed is still open afterwards.
C31_StateFollowsOrderResult ==
    [][ TraderPass =>
          /\ (trader'.in_position # trader.in_position) =>
                 trader'.order_result = Some(TRUE)
          /\ (trader'.pm.balance # trader.pm.balance) =>
                 trader'.order_result = Some(TRUE)
          /\ (trader'.order_result = Some(FALSE)) =>
                 /\ trader'.in_position = trader.in_position
                 /\ trader'.entry_price = trader.entry_price
                 /\ trader'.pm.balance = trader.pm.balance
                 /\ trader'.pm.realized_pnl = trader.pm.realized_pnl ]_vars

\* a sell order has just failed and the position is still open
C31_Witness ==
    /\ pc = "trader"
    /\ trader.order_result = Some(FALSE)
    /\ trader.branch = "sell"
    /\ trader.in_position
    /\ trader.entry_price > 0
    /\ trader.pm.balance = R(CapitalBase)

\* C32: every pass of Trader.run of strategy_engine.py ends with a sleep, of
\* 3600 s or of 60 s after an empty fetch, before the next fetch_ohlcv.
C32_EveryPassSleeps ==
    (pc = "trader" /\ trader.fetches > 0) => trader.slept \in {RetrySleep, CandleSleep}

\* C33: in a dry run execute_order makes no request to the exchange, whatever
\* the side and the amount, and returns a success result; a request is made
\* exactly when dry_run is false and the side is buy or sell, and it is the
\* market order of that side for that amount.
C33_DryRunPlacesNoOrder ==
    pc = "ordered" =>
        /\ config.dry_run => (trader.requests = << >> /\ trader.ret = "dry_run_ok")
        /\ trader.requests # << >> <=>
               (~config.dry_run /\ trader.side \in {"buy", "sell"})
        /\ trader.requests # << >> =>
               /\ Len(trader.requests) = 1
               /\ trader.requests[1].amount = trader.amount
               /\ trader.requests[1].method =
                      IF trader.side = "buy" THEN "create_market_buy_order"
                      ELSE "create_market_sell_order"

\* a dry-run buy has returned its success result
C33_Witness ==
    /\ pc = "ordered"
    /\ config.dry_run
    /\ trader.side = "buy"
    /\ trader.amount = R(2)
    /\ trader.ret = "dry_run_ok"
    /\ trader.requests = << >>

\* C34: _connect_to_exchange makes at most MaxRetries attempts; it returns at
\* the first attempt that succeeds and makes no attempt after it; every
\* failed attempt but the last is followed by another attempt; it raises
\* ConnectionError exactly when MaxRetries attempts have failed; and it ends.
C34_ConnectTriesAtMostFiveTimes ==
    /\ [](pc \in {"connect", "connected", "connection_error"} =>
              /\ trader.attempts <= MaxRetries
              /\ pc = "connected" => trader.attempts = Len(trader.failures) + 1
              /\ pc = "connection_error" <=>
                     (trader.raised = "ConnectionError" /\ Len(trader.failures) = MaxRetries)
              /\ (pc = "connect" /\ Len(trader.failures) < MaxRetries) =>
                     (ENABLED ConnectSucceed /\ ENABLED ConnectFail))
    /\ [][ (pc \in {"connected", "connection_error"}) => (trader' = trader) ]_vars
    /\ [][ (pc = "connect" /\ pc' = "connection_error") =>
               (trader.attempts = MaxRetries /\ Len(trader.failures) = MaxRetries) ]_vars
    /\ <>(pc \in {"connected", "connection_error"})

\* the third attempt succeeded after a NetworkError and another exception
C34_Witness ==
    /\ pc = "connected"
    /\ trader.attempts = 3
    /\ trader.failures = <<"NetworkError", "Exception">>
    /\ trader.slept = 2 * ConnectRetrySleep

\* a call of fetch_ohlcv of data_handler.py
FetchStep == pc = "fetch" /\ trader'.calls # trader.calls

\* C35: fetch_ohlcv returns the cached data of its key without a request when
\* the key is in the cache; on a miss that returns data, the data is in the
\* cache under the key and the cache is saved; and a call that returns an
\* empty frame leaves the cache as it was.
C35_CacheFirst ==
    [][ FetchStep =>
          LET l == trader'.limit
          IN  /\ trader.cache[l] # None =>
                     /\ trader'.ret = trader.cache[l][1]
                     /\ trader'.requests = trader.requests
                     /\ trader'.cache = trader.cache
                     /\ trader'.disk = trader.disk
              /\ (trader.cache[l] = None /\ trader'.ret # EmptyFrame) =>
                     /\ trader'.cache = [trader.cache EXCEPT ![l] = Some(trader'.ret)]
                     /\ trader'.disk = trader'.cache
              /\ trader'.ret = EmptyFrame => trader'.cache = trader.cache ]_vars

\* C36: two consecutive requests of fetch_ohlcv to the exchange are at least
\* RateLimitDelay apart; _apply_rate_limit sleeps exactly when less than
\* that has passed since last_request_time, for at least the remaining time,
\* and last_request_time is then the time of the request.
C36_RequestsRateLimited ==
    /\ []((pc = "fetch" /\ trader.gap # None) => trader.gap[1] >= RateLimitDelay)
    /\ [][ (FetchStep /\ trader'.requests # trader.requests) =>
             LET called_at == trader'.last_request_time - trader'.slept
             IN  /\ trader'.request_time = Some(trader'.last_request_time)
                 /\ trader'.slept > 0 <=>
                        called_at - trader.last_request_time < RateLimitDelay
                 /\ trader'.slept > 0 =>
                        trader'.slept >= RateLimitDelay - (called_at - trader.last_request_time)
                 /\ trader'.last_request_time - trader.last_request_time >= RateLimitDelay ]_vars

\* the second request came 4 hundredths after the first returned: the call
\* slept 6 and the requests are a tenth of a second apart
C36_Witness ==
    /\ pc = "fetch"
    /\ trader.requests = 2
    /\ trader.slept = 6
    /\ trader.gap = Some(RateLimitDelay)

\* C37: while a position is open in Backtester.run its stop-loss price is
\* defined and strictly below its entry price and its size is strictly
\* positive; so the stop-loss test of an open position always has a stop
\* price, and every stop-loss exit records a trade with a negative pnl.
C37_OpenPositionWellFormed ==
    /\ []((pc \in {"loop", "done"} /\ in_position) =>
              /\ stop_loss_price # None
              /\ stop_loss_price[1] < entry_price
              /\ RPos(position_size))
    /\ [][ (BarStep /\ branch' = "stop_loss") =>
               /\ in_position
               /\ stop_loss_price # None
               /\ ClosedAtClose
               /\ trades'[Len(trades')].pnl.n < 0 ]_vars

\* a position bought with a stop-loss has been closed by it, at a loss
C37_Witness ==
    /\ pc = "loop"
    /\ branch = "stop_loss"
    /\ ~in_position
    /\ entries = 1
    /\ Len(trades) = 1
    /\ trades[1].pnl.n < 0

\* C38: every recorded trade was entered on a bar strictly before the bar it
\* was closed on, and entered strictly after the bar on which the trade
\* before it was closed.
C38_TradesOrderedInTime ==
    pc \in {"loop", "done"} =>
        /\ \A k \in 1..Len(trades) :
               /\ trades[k].entry_date # None
               /\ trades[k].entry_date[1] < trades[k].exit_date
        /\ \A k \in 2..Len(trades) :
               trades[k].entry_date[1] > trades[k - 1].exit_date
        /\ (in_position /\ trades # << >>) =>
               entry_time[1] > trades[Len(trades)].exit_date

\* two trades, the second entered on the bar after the first was closed
C38_Witness ==
    /\ pc = "done"
    /\ Len(trades) = 2
    /\ trades[1].exit_date = 2
    /\ trades[2].entry_date = Some(3)
    /\ trades[2].exit_date = 4

\* the size of the claim: 0 when stop >= entry, else balance * pct / 100 / (entry - stop)
ClaimedSize(t) ==
    IF ~RLt(t.stop_loss, t.entry) THEN Zero
    ELSE RDiv(RDiv(RMul(t.balance, t.pct), R(100)), RAdd(t.entry, RNeg(t.stop_loss)))

\* in exact arithmetic the three variants return the size of the claim
ExactSizesAgree ==
    /\ trader.exact[1].pm = ClaimedSize(trader)
    /\ trader.exact[1].eh = ClaimedSize(trader)
    /\ trader.exact[1].se = ClaimedSize(trader)

\* C39 as stated: the three variants of calculate_position_size return the
\* same size, 0 when stop >= entry and balance * pct / 100 / (entry - stop)
\* otherwise.
C39_SizersAgree ==
    pc = "sizers_done" =>
        /\ ExactSizesAgree
        /\ trader.float[1].pm = trader.float[1].eh
        /\ trader.float[1].eh = trader.float[1].se

\* C39 amended: the variants of execution_handler.py and strategy_engine.py
\* return the same float; all three return 0 when stop >= entry; in exact
\* arithmetic all three return balance * pct / 100 / (entry - stop); and the
\* float of portfolio_manager.py, which takes two more roundings, differs
\* from the float of the others by at most 5 / 2^FloatBits of it.
C39_SizersAgreeUpToRounding ==
    pc = "sizers_done" =>
        /\ ExactSizesAgree
        /\ trader.float[1].eh = trader.float[1].se
        /\ ~RLt(trader.stop_loss, trader.entry) =>
               (trader.float[1].pm = Zero /\ trader.float[1].eh = Zero)
        /\ LET diff == RAbs(RAdd(trader.float[1].pm, RNeg(trader.float[1].eh)))
               tol  == RMul(RAbs(trader.float[1].eh), [n |-> 5, d |-> Pow2(FloatBits)])
           IN  ~RLt(tol, diff)

\* the float of portfolio_manager.py differs from that of the other two
C39_Witness ==
    /\ pc = "sizers_done"
    /\ RLt(trader.stop_loss, trader.entry)
    /\ trader.float[1].pm # trader.float[1].eh
    /\ trader.float[1].eh = trader.float[1].se
    /\ trader.exact[1].pm = trader.exact[1].eh

\* C40: constructing the orchestrator of sentiment.py terminates: unless the
\* configuration or the exchange connection fails, a single constructor
\* builds the components and then enters run_backtest or run_live; it never
\* starts a second constructor and never ends in RecursionError.
C40_ConstructorEntersRun ==
    /\ [](trader.depth = 1 /\ trader.raised # "RecursionError")
    /\ <>(\/ trader.pc \in {"run_backtest", "run_live"}
          \/ trader.raised \in {"ValueError", "ConnectionError"})

====
